---- MODULE Spec2Model ----
(***************************************************************************)
(* A model of niu, a post-process JavaScript minifier: the minify pipeline *)
(* (src/index.ts) and its passes hoistGlobals, hoistDuplicateLiterals,     *)
(* mangleIdentifiers and constsToLets, with the byte-cost profit model.    *)
(*                                                                         *)
(* Source text is modelled by what the passes can see of it.  A program    *)
(* (`code`) is a record                                                    *)
(*   parent  : the scope tree, scopes numbered in traversal pre-order,     *)
(*             scope 1 the program scope, parent[1] = 0;                   *)
(*   binders : the declaring identifiers, [name, scope], in traversal      *)
(*             order;                                                      *)
(*   idents  : every other Identifier node, [name, scope, ctx], in         *)
(*             traversal order; ctx is the node's place in its parent;     *)
(*   lits    : the literal and property-name occurrences, in traversal     *)
(*             order;                                                      *)
(*   decls   : the variable declarations, [kind, scope, site,              *)
(*             declarators].                                               *)
(* Parsing adds the scope analysis: `bindings` and, for every identifier,  *)
(* the binding it resolves to (`ref`, 0 for a free identifier).  Printing  *)
(* drops it again.                                                         *)
(***************************************************************************)
EXTENDS Integers, Sequences, FiniteSets, TLC

VARIABLES
    pc,                      \* the position of the minify call
    code,                    \* minify's argument `code`
    options,                 \* minify's argument `options`
    terserResult,            \* what the external pre-pass does when it is called
    inputCode,               \* the local `inputCode`
    ast,                     \* the local `ast`
    intermediate,            \* the local `intermediate`, its code
    hoistedGlobals,          \* hoistGlobals' result.hoistedGlobals
    hoistedLiteralBindings,  \* hoistDuplicateLiterals' result.hoistedLiteralBindings
    renameMap,               \* mangleIdentifiers' result.renameMap
    steps,                   \* the steps run so far, in order
    output                   \* the resolved value { code }, or the rejection

vars == <<pc, code, options, terserResult, inputCode, ast, intermediate, hoistedGlobals,
          hoistedLiteralBindings, renameMap, steps, output>>

----------------------------------------------------------------------------
(* Sequences *)

Range(s) == {s[i] : i \in DOMAIN s}

\* The indexes of s whose element satisfies Test, in order.
SelectIndexes(s, keep) == SelectSeq([i \in 1..Len(s) |-> i], LAMBDA i : i \in keep)

\* The distinct elements of s in the order of their first occurrence: the key
\* order of a JS Map filled by walking s.
RECURSIVE FirstOccurrences(_)
FirstOccurrences(s) ==
    IF s = <<>> THEN <<>>
    ELSE LET front == FirstOccurrences(SubSeq(s, 1, Len(s) - 1))
             last == s[Len(s)]
         IN IF last \in Range(front) THEN front ELSE Append(front, last)

\* Array.prototype.sort((a, b) => key(b) - key(a)): descending and stable.
\* The result lists the indexes of `keys` in sorted order.
SortedIndexesDesc(keys) ==
    LET RECURSIVE From(_)
        From(values) ==
            IF values = {} THEN <<>>
            ELSE LET greatest == CHOOSE v \in values : \A w \in values : w <= v
                 IN SelectSeq([i \in 1..Len(keys) |-> i], LAMBDA i : keys[i] = greatest)
                    \o From(values \ {greatest})
    IN From({keys[i] : i \in 1..Len(keys)})

RECURSIVE SumSeq(_)
SumSeq(s) == IF s = <<>> THEN 0 ELSE s[1] + SumSeq(Tail(s))

----------------------------------------------------------------------------
(* Scopes and resolution (the scope analysis done by the parser) *)

\* The scopes from s up to the program scope, s first.
RECURSIVE ScopeChain(_, _)
ScopeChain(parent, s) ==
    IF s = 0 THEN <<>> ELSE <<s>> \o ScopeChain(parent, parent[s])

\* isInsideScope: the scope `s` of a path is `target` or one of its descendants.
isInsideScope(parent, s, target) == target \in Range(ScopeChain(parent, s))

\* The binding (an index of `bindings`) a name resolves to from scope s: the
\* binding of that name in the nearest enclosing scope, 0 when there is none.
RECURSIVE ResolveIn(_, _, _)
ResolveIn(bindings, chain, name) ==
    IF chain = <<>> THEN 0
    ELSE LET here == {b \in DOMAIN bindings :
                        bindings[b].scope = chain[1] /\ bindings[b].name = name}
         IN IF here # {} THEN CHOOSE b \in here : \A c \in here : b <= c
            ELSE ResolveIn(bindings, Tail(chain), name)

Resolve(parent, bindings, s, name) == ResolveIn(bindings, ScopeChain(parent, s), name)

\* The identifiers a declaration declares, as binders of its scope.
RECURSIVE DeclaredBy(_)
DeclaredBy(decls) ==
    IF decls = <<>> THEN <<>>
    ELSE LET d == decls[1]
             ids == [k \in 1..Len(d.declarators) |->
                        [i \in 1..Len(d.declarators[k].ids) |->
                            [name |-> d.declarators[k].ids[i], scope |-> d.scope]]]
             RECURSIVE Flat(_)
             Flat(ss) == IF ss = <<>> THEN <<>> ELSE ss[1] \o Flat(Tail(ss))
         IN Flat(ids) \o DeclaredBy(Tail(decls))

\* The identifier node is a name and no expression: the property of a
\* non-computed member expression, the key of a non-computed object property,
\* the key of a method.  The scope does not look such a node up.
IsPropertyNameCtx(ctx) == ctx \in {"memberProperty", "objectKey", "methodName"}

\* parse(code, PARSER_OPTIONS): the AST with its scope information.  The
\* bindings are the declared identifiers of the declarations that have no
\* binder yet (in source order, the hoisted declarations come first) and the
\* program's binders; an identifier that is an expression or an assignment
\* target is resolved by name, ref 0 when no binding is in scope, and one
\* that is a property name has ref 0.
parse(c) ==
    LET known(b) == \E k \in DOMAIN c.binders : c.binders[k] = b
        declared == DeclaredBy(c.decls)
        fresh == SelectIndexes(declared, {k \in DOMAIN declared : ~known(declared[k])})
        bindings == [k \in 1..Len(fresh) |-> declared[fresh[k]]] \o c.binders
    IN [parent   |-> c.parent,
        bindings |-> bindings,
        idents   |-> [i \in DOMAIN c.idents |->
                        [name  |-> c.idents[i].name,
                         scope |-> c.idents[i].scope,
                         ctx   |-> c.idents[i].ctx,
                         ref   |-> IF IsPropertyNameCtx(c.idents[i].ctx) THEN 0
                                   ELSE Resolve(c.parent, bindings, c.idents[i].scope,
                                                c.idents[i].name)]],
        lits     |-> c.lits,
        decls    |-> c.decls]

\* generate(ast, { compact: true }): the source text; the scope information is
\* not part of it.
generate(a) ==
    [parent  |-> a.parent,
     binders |-> a.bindings,
     idents  |-> [i \in DOMAIN a.idents |->
                    [name  |-> a.idents[i].name,
                     scope |-> a.idents[i].scope,
                     ctx   |-> a.idents[i].ctx]],
     lits    |-> a.lits,
     decls   |-> a.decls]

----------------------------------------------------------------------------
(* utils/profitCalculator *)

\* -Infinity, below every profit the model can compute.
NegInfinity == -1000000

getDeclarationCost(valueReprLength, identifierLength, isFirst) ==
    IF isFirst THEN 6 + identifierLength + 1 + valueReprLength
    ELSE 1 + identifierLength + 1 + valueReprLength

calculateLiteralProfit(occurrences, literalReprLength, identifierLength, isFirst) ==
    LET originalCost == occurrences * literalReprLength
        declarationCost == getDeclarationCost(literalReprLength, identifierLength, isFirst)
        referenceCost == occurrences * identifierLength
        newCost == declarationCost + referenceCost
    IN originalCost - newCost

\* calculateGlobalProfit with the declaration cost of a later declarator,
\* whatever isFirst is.
calculateGlobalProfitNeverFirst(occurrences, globalNameLength, identifierLength, isFirst) ==
    IF occurrences < 2 THEN NegInfinity
    ELSE LET originalCost == occurrences * globalNameLength
             declarationCost == getDeclarationCost(globalNameLength, identifierLength, FALSE)
             referenceCost == occurrences * identifierLength
             newCost == declarationCost + referenceCost
         IN originalCost - newCost

calculateGlobalProfit(occurrences, globalNameLength, identifierLength, isFirst) ==
    IF occurrences < 2 THEN NegInfinity
    ELSE LET originalCost == occurrences * globalNameLength
             declarationCost == getDeclarationCost(globalNameLength, identifierLength, isFirst)
             referenceCost == occurrences * identifierLength
             newCost == declarationCost + referenceCost
         IN originalCost - newCost

----------------------------------------------------------------------------
(* transforms/hoistGlobals *)

RESERVED_KEYWORDS ==
    {"arguments", "this", "super", "undefined", "NaN", "Infinity", "null", "true", "false"}

isMemberExpressionObject(id) == id.ctx = "memberObject"

isTypeofArgument(id) == id.ctx = "typeofArg"

\* scope.globals of the program scope: the names of the unresolved identifiers.
ProgramGlobals(a) ==
    {a.idents[i].name : i \in {j \in DOMAIN a.idents :
        a.idents[j].ref = 0 /\ ~IsPropertyNameCtx(a.idents[j].ctx)}}

\* `__niu_global_${String(i)}__`, i counted from 0.
GlobalPlaceholder(i) == "__niu_global_" \o ToString(i) \o "__"

\* GlobalReferences without the typeofGlobals test of the filter.
GlobalReferencesTypeofIgnored(a) ==
    SelectIndexes(a.idents, {i \in DOMAIN a.idents :
        /\ isMemberExpressionObject(a.idents[i])
        /\ a.idents[i].name \notin RESERVED_KEYWORDS
        /\ a.idents[i].name \in ProgramGlobals(a)})

\* The references hoistGlobals collects: the member-expression objects whose
\* name is a global of the program and no operand of typeof, whatever the
\* occurrence itself resolves to.
GlobalReferences(a) ==
    LET trueGlobals == ProgramGlobals(a)
        typeofGlobals == {a.idents[i].name :
                             i \in {j \in DOMAIN a.idents : isTypeofArgument(a.idents[j])}}
        pendingRefs == {i \in DOMAIN a.idents :
                            /\ isMemberExpressionObject(a.idents[i])
                            /\ a.idents[i].name \notin RESERVED_KEYWORDS}
    IN SelectIndexes(a.idents, {i \in pendingRefs :
            /\ a.idents[i].name \in trueGlobals
            /\ a.idents[i].name \notin typeofGlobals})

\* The keys of globalUsage (a Map, so in first-insertion order).
GlobalUsageKeys(a, refs) == FirstOccurrences([k \in 1..Len(refs) |-> a.idents[refs[k]].name])

\* usage.references.length
GlobalUsageCount(a, refs, g) == Cardinality({k \in 1..Len(refs) : a.idents[refs[k]].name = g})

\* The loop over globalUsage: `names` are the keys still to visit, `decisions`
\* the decisions pushed so far.
RECURSIVE GlobalDecisions(_, _, _, _)
GlobalDecisions(a, refs, names, decisions) ==
    IF names = <<>> THEN decisions
    ELSE LET count == GlobalUsageCount(a, refs, names[1])
             isFirst == Len(decisions) = 0
             profit == calculateGlobalProfit(count, Len(names[1]), 1, isFirst)
         IN GlobalDecisions(a, refs, Tail(names),
                IF count >= 2 /\ profit > 0
                THEN Append(decisions, [name |-> names[1], occurrences |-> count,
                                        profit |-> profit, first |-> isFirst])
                ELSE decisions)

\* decisions.sort((a, b) => b.occurrences - a.occurrences)
SortByOccurrences(decisions) ==
    LET order == SortedIndexesDesc([k \in 1..Len(decisions) |-> decisions[k].occurrences])
    IN [k \in 1..Len(decisions) |-> decisions[order[k]]]

\* The decisions of hoistGlobals after the sort.
GlobalHoistDecisions(a, refs) ==
    IF ProgramGlobals(a) = {} THEN <<>>
    ELSE SortByOccurrences(GlobalDecisions(a, refs, GlobalUsageKeys(a, refs), <<>>))

\* result.hoistedGlobals
HoistedGlobalsOf(decisions) ==
    [k \in 1..Len(decisions) |->
        [name |-> GlobalPlaceholder(k - 1),
         globalName |-> decisions[k].name,
         occurrences |-> decisions[k].occurrences]]

\* The unshift of the declaration without the replacement of the references.
ReplaceGlobalsDeclarationOnly(a, refs, hoisted) ==
    [ast |-> [a EXCEPT
        !.decls = IF Len(hoisted) > 0
                  THEN <<[kind |-> "const", scope |-> 1, site |-> "top",
                          declarators |-> [k \in 1..Len(hoisted) |->
                              [ids |-> <<hoisted[k].name>>,
                               init |-> [type |-> "identifier",
                                         value |-> hoisted[k].globalName]]]]>> \o a.decls
                  ELSE a.decls],
     hoistedGlobals |-> hoisted]

\* The replacement of the references and the unshift of the declaration.
ReplaceGlobals(a, refs, hoisted) ==
    LET placeholderOf(g) ==
            hoisted[CHOOSE k \in 1..Len(hoisted) : hoisted[k].globalName = g].name
        isHoisted(i) == /\ i \in Range(refs)
                        /\ \E k \in 1..Len(hoisted) : hoisted[k].globalName = a.idents[i].name
        declaration == [kind |-> "const", scope |-> 1, site |-> "top",
                        declarators |-> [k \in 1..Len(hoisted) |->
                            [ids |-> <<hoisted[k].name>>,
                             init |-> [type |-> "identifier",
                                       value |-> hoisted[k].globalName]]]]
    IN [ast |-> [a EXCEPT
            !.idents = [i \in DOMAIN a.idents |->
                           IF isHoisted(i)
                           THEN [a.idents[i] EXCEPT
                                    !.name = placeholderOf(a.idents[i].name),
                                    !.ref = 0]
                           ELSE a.idents[i]],
            !.decls = IF Len(hoisted) > 0 THEN <<declaration>> \o a.decls
                      ELSE a.decls],
        hoistedGlobals |-> hoisted]

HoistGlobalsFrom(a, refs) ==
    ReplaceGlobals(a, refs, HoistedGlobalsOf(GlobalHoistDecisions(a, refs)))

hoistGlobals(a) == HoistGlobalsFrom(a, GlobalReferences(a))

----------------------------------------------------------------------------
(* utils/profitCalculator: strings *)

\* The characters of a string, as a set and by position.
CharOf(str, i) == SubSeq(str, i, i)

CharsOf(str) == {CharOf(str, i) : i \in 1..Len(str)}

\* JSON.stringify(value).length for the strings of the model: the two quotes,
\* one character each, two for a double quote or a backslash.
JsonLength(value) ==
    2 + Len(value) + Cardinality({i \in 1..Len(value) : CharOf(value, i) \in {"\"", "\\"}})

getLiteralRepresentationLength(value, type) ==
    CASE type = "string" -> JsonLength(value)
      [] type = "number" -> Len(value)
      [] type = "boolean" -> (IF value = "true" THEN 4 ELSE 5)
      [] type = "null" -> 4
      [] type = "undefined" -> 9
      [] type = "bigint" -> Len(value) + 1

isPropertyAccessProfitable(propertyName, identifierLength) ==
    Len(propertyName) > 1 + identifierLength

\* isObjectPropertyProfitable with the test of isPropertyAccessProfitable.
isObjectPropertyProfitableAsAccess(propertyName, identifierLength) ==
    Len(propertyName) > 1 + identifierLength

isObjectPropertyProfitable(propertyName, identifierLength) ==
    Len(propertyName) > 2 + identifierLength

calculateSelectiveStringProfit(usage, value, identifierLength, isFirst) ==
    LET literalCount == usage.literalCount
        propertyAccessCount == usage.propertyAccessCount
        objectPropertyCount == usage.objectPropertyCount
        stringReprLength == JsonLength(value)
        propertyAccessProfitablePerOccurrence ==
            isPropertyAccessProfitable(value, identifierLength)
        objectPropertyProfitablePerOccurrence ==
            isObjectPropertyProfitable(value, identifierLength)
        effectiveLiteralCount == literalCount
        effectivePropertyAccessCount ==
            IF propertyAccessProfitablePerOccurrence THEN propertyAccessCount ELSE 0
        effectiveObjectPropertyCount ==
            IF objectPropertyProfitablePerOccurrence THEN objectPropertyCount ELSE 0
        effectiveTotal == effectiveLiteralCount + effectivePropertyAccessCount
                          + effectiveObjectPropertyCount
        originalCost ==
            effectiveLiteralCount * stringReprLength
            + (IF propertyAccessProfitablePerOccurrence
               THEN propertyAccessCount * (1 + Len(value)) ELSE 0)
            + (IF objectPropertyProfitablePerOccurrence
               THEN objectPropertyCount * Len(value) ELSE 0)
        declarationCost == getDeclarationCost(stringReprLength, identifierLength, isFirst)
        newCost ==
            declarationCost
            + effectiveLiteralCount * identifierLength
            + (IF propertyAccessProfitablePerOccurrence
               THEN propertyAccessCount * (2 + identifierLength) ELSE 0)
            + (IF objectPropertyProfitablePerOccurrence
               THEN objectPropertyCount * (2 + identifierLength) ELSE 0)
    IN IF effectiveTotal < 2
       THEN [profit |-> NegInfinity, hoistLiterals |-> FALSE,
             hoistPropertyAccess |-> FALSE, hoistObjectProperties |-> FALSE]
       ELSE [profit |-> originalCost - newCost,
             hoistLiterals |-> effectiveLiteralCount > 0,
             hoistPropertyAccess |->
                 propertyAccessProfitablePerOccurrence /\ propertyAccessCount > 0,
             hoistObjectProperties |->
                 objectPropertyProfitablePerOccurrence /\ objectPropertyCount > 0]

----------------------------------------------------------------------------
(* transforms/hoistDuplicateLiterals *)

\* VALID_IDENTIFIER_REGEX = /^[a-zA-Z_$][a-zA-Z0-9_$]*$/
IdentifierStart == CharsOf("abcdefghijklmnopqrstuvwxyzABCDEFGHIJKLMNOPQRSTUVWXYZ_$")

IdentifierPart == IdentifierStart \cup CharsOf("0123456789")

isValidIdentifier(name) ==
    /\ Len(name) >= 1
    /\ CharOf(name, 1) \in IdentifierStart
    /\ \A i \in 2..Len(name) : CharOf(name, i) \in IdentifierPart

needsEscaping(c) == c \in {"\"", "'", "\\"}

\* The printable ASCII characters, codes 32 to 126, in code order.  A TLA+
\* string cannot hold the backtick (code 96): \t stands for it, here, in
\* PreferredDelimiters and in the strings of the programs.
PrintableAscii ==
    " !\"#$%&'()*+,-./0123456789:;<=>?@ABCDEFGHIJKLMNOPQRSTUVWXYZ[\\]^_\tabcdefghijklmnopqrstuvwxyz{|}~"

PreferredDelimiters == ",;:|!@#$%^&*~\t<>?/-_=+.()[]{}"

\* The first character of `candidates` that passes: "" when there is none.
FirstCharOf(candidates, ok) ==
    LET hits == {i \in 1..Len(candidates) : CharOf(candidates, i) \in ok}
    IN IF hits = {} THEN ""
       ELSE CharOf(candidates, CHOOSE i \in hits : \A j \in hits : i <= j)

\* findDelimiter without the search: the first preferred delimiter.
findDelimiterFirstPreferred(strings) == CharOf(PreferredDelimiters, 1)

\* findDelimiter: the delimiter, or "" for null.
findDelimiter(strings) ==
    LET allChars == UNION {CharsOf(strings[k]) : k \in DOMAIN strings}
        preferred == FirstCharOf(PreferredDelimiters,
                                 CharsOf(PreferredDelimiters) \ allChars)
        fallback == FirstCharOf(PrintableAscii,
                        {c \in CharsOf(PrintableAscii) : ~needsEscaping(c)} \ allChars)
    IN IF preferred # "" THEN preferred ELSE fallback

SPLIT_MIN_STRINGS == 7

isSplitProfitable(stringCount) == stringCount >= SPLIT_MIN_STRINGS

\* `__niu_literal_${String(i)}__`, i counted from 0.
LiteralPlaceholder(i) == "__niu_literal_" \o ToString(i) \o "__"

\* The categories of a string occurrence the visitors collect, by the list of
\* StringUsageCollected each goes to.
LiteralCats == {"literal", "bracketAccess", "stringKey"}

PropertyAccessCats == {"dotAccess"}

ObjectPropertyCats == {"identifierKey", "classMethod", "classProperty"}

\* A literal that is the non-computed key of an object method or a class
\* method ({ "handler"() {} }) or of a class property: its parent is no
\* ObjectProperty and no MemberExpression, and the literal visitors treat it
\* as any other literal (a string goes to literalNodes).
MemberKeyCats == {"methodKey", "classPropertyKey"}

\* The occurrence is put in stringUsage by one of the visitors.
IsCollectedString(l) ==
    /\ l.type = "string"
    /\ \/ l.cat \in LiteralCats \cup MemberKeyCats
       \/ l.cat \in PropertyAccessCats \cup ObjectPropertyCats /\ isValidIdentifier(l.value)

\* The occurrence is put in otherLiterals by one of the literal visitors.
IsCollectedOther(l) ==
    /\ l.type \in {"number", "boolean", "null", "bigint"}
    /\ l.cat # "objectKey"

\* The places of an Identifier named `undefined` that the Identifier visitor
\* returns early for: the left of an assignment expression, the id of a
\* declarator, the non-computed key of an object property, the key of an
\* object method or a class method.
UndefinedSkippedCtx == {"assignLeft", "redeclaration", "objectKey", "methodName"}

IsCollectedUndefined(id) == id.name = "undefined" /\ id.ctx \notin UndefinedSkippedCtx

\* The keys of stringUsage in insertion order.
StringUsageKeys(a) ==
    LET occ == SelectIndexes(a.lits, {i \in DOMAIN a.lits : IsCollectedString(a.lits[i])})
    IN FirstOccurrences([k \in 1..Len(occ) |-> a.lits[occ[k]].value])

\* The occurrences of a string value in the given categories.
StringNodes(a, value, cats) ==
    {i \in DOMAIN a.lits : /\ IsCollectedString(a.lits[i])
                           /\ a.lits[i].value = value
                           /\ a.lits[i].cat \in cats}

UsageCounts(a, value) ==
    [literalCount |-> Cardinality(StringNodes(a, value, LiteralCats \cup MemberKeyCats)),
     propertyAccessCount |-> Cardinality(StringNodes(a, value, PropertyAccessCats)),
     objectPropertyCount |-> Cardinality(StringNodes(a, value, ObjectPropertyCats))]

\* One iteration of the loop that fills stringCandidates: the candidate pushed,
\* if any.
CandidateOf(value, u, selectiveResult) ==
    LET totalOccurrences == u.literalCount + u.propertyAccessCount + u.objectPropertyCount
        effectiveOccurrences ==
            (IF selectiveResult.hoistLiterals THEN u.literalCount ELSE 0)
            + (IF selectiveResult.hoistPropertyAccess THEN u.propertyAccessCount ELSE 0)
            + (IF selectiveResult.hoistObjectProperties THEN u.objectPropertyCount ELSE 0)
    IN IF totalOccurrences >= 2 /\ selectiveResult.profit > -2 /\ effectiveOccurrences >= 2
       THEN <<[value |-> value, selectiveResult |-> selectiveResult,
               effectiveOccurrences |-> effectiveOccurrences]>>
       ELSE <<>>

CandidateFor(value, u) ==
    CandidateOf(value, u, calculateSelectiveStringProfit(u, value, 1, FALSE))

\* The loop that fills stringCandidates, over the keys still to visit.
RECURSIVE StringCandidates(_, _)
StringCandidates(a, keys) ==
    IF keys = <<>> THEN <<>>
    ELSE CandidateFor(keys[1], UsageCounts(a, keys[1])) \o StringCandidates(a, Tail(keys))

FIRST_DECL_OVERHEAD == 5

IsProfitableUnderConst(c) == c.selectiveResult.profit > 0

IsMarginalForSplit(c) == c.selectiveResult.profit <= 0 /\ c.selectiveResult.profit > -2

\* selectedCandidates before its sort when the marginal candidates are never
\* taken.
SelectCandidatesProfitableOnly(profitableUnderConst, marginalForSplit) == profitableUnderConst

\* selectedCandidates before its sort.
SelectCandidates(profitableUnderConst, marginalForSplit) ==
    IF Len(profitableUnderConst) >= SPLIT_MIN_STRINGS THEN profitableUnderConst
    ELSE IF Len(profitableUnderConst) + Len(marginalForSplit) >= SPLIT_MIN_STRINGS
         THEN profitableUnderConst \o marginalForSplit
         ELSE profitableUnderConst

\* selectedCandidates.sort((a, b) => b.effectiveOccurrences - a.effectiveOccurrences)
SortByEffectiveOccurrences(selected) ==
    LET order == SortedIndexesDesc([k \in 1..Len(selected) |->
                                       selected[k].effectiveOccurrences])
    IN [k \in 1..Len(selected) |-> selected[order[k]]]

SelectedFrom(stringCandidates) ==
    SortByEffectiveOccurrences(
        SelectCandidates(SelectSeq(stringCandidates, IsProfitableUnderConst),
                         SelectSeq(stringCandidates, IsMarginalForSplit)))

\* selectedCandidates after its sort.
SelectedCandidates(a) == SelectedFrom(StringCandidates(a, StringUsageKeys(a)))

StringDecisionOf(c) ==
    [type |-> "string", value |-> c.value, occurrences |-> c.effectiveOccurrences,
     profit |-> c.selectiveResult.profit,
     hoistLiterals |-> c.selectiveResult.hoistLiterals,
     hoistPropertyAccess |-> c.selectiveResult.hoistPropertyAccess,
     hoistObjectProperties |-> c.selectiveResult.hoistObjectProperties]

\* The loop over selectedCandidates without the gate on the first slot: every
\* candidate is pushed.
FirstGateUngated(candidates, stringDecisions, skippedAsFirst) ==
    [stringDecisions |->
         stringDecisions \o [k \in 1..Len(candidates) |-> StringDecisionOf(candidates[k])],
     skippedAsFirst |-> skippedAsFirst]

\* The loop over selectedCandidates: the decisions pushed and the candidates
\* skipped for the first slot.
RECURSIVE FirstGate(_, _, _)
FirstGate(candidates, stringDecisions, skippedAsFirst) ==
    IF candidates = <<>>
    THEN [stringDecisions |-> stringDecisions, skippedAsFirst |-> skippedAsFirst]
    ELSE LET isFirst == Len(stringDecisions) = 0
             firstProfit == candidates[1].selectiveResult.profit - FIRST_DECL_OVERHEAD
         IN IF isFirst /\ firstProfit <= 0
            THEN FirstGate(Tail(candidates), stringDecisions,
                           IF candidates[1].selectiveResult.profit > 0
                           THEN Append(skippedAsFirst, candidates[1]) ELSE skippedAsFirst)
            ELSE FirstGate(Tail(candidates),
                           Append(stringDecisions, StringDecisionOf(candidates[1])),
                           skippedAsFirst)

\* The decisions when the skipped candidates are never appended again.
AfterFirstGateSkippedDropped(gate) == gate.stringDecisions

\* The re-append of the skipped candidates and the second sort.
AfterFirstGate(gate) ==
    IF Len(gate.stringDecisions) > 0
    THEN SortByOccurrences(
             gate.stringDecisions
             \o [k \in 1..Len(gate.skippedAsFirst) |->
                    StringDecisionOf(gate.skippedAsFirst[k])])
    ELSE <<>>

\* stringDecisions as the rewrite and the emission read it.
StringDecisions(a) == AfterFirstGate(FirstGate(SelectedCandidates(a), <<>>, <<>>))

\* The keys of otherLiterals in insertion order, as [type, value]: the
\* literals in traversal order, then `undefined` (the model's programs use
\* `undefined` after their other literals).
OtherLiteralKeys(a) ==
    LET occ == SelectIndexes(a.lits, {i \in DOMAIN a.lits : IsCollectedOther(a.lits[i])})
        undef == IF \E i \in DOMAIN a.idents : IsCollectedUndefined(a.idents[i])
                 THEN <<[type |-> "undefined", value |-> "undefined"]>> ELSE <<>>
    IN FirstOccurrences([k \in 1..Len(occ) |->
                            [type |-> a.lits[occ[k]].type, value |-> a.lits[occ[k]].value]])
       \o undef

\* info.nodes.length
OtherNodeCount(a, key) ==
    IF key.type = "undefined"
    THEN Cardinality({i \in DOMAIN a.idents : IsCollectedUndefined(a.idents[i])})
    ELSE Cardinality({i \in DOMAIN a.lits : /\ IsCollectedOther(a.lits[i])
                                             /\ a.lits[i].type = key.type
                                             /\ a.lits[i].value = key.value})

\* One iteration of the loop over otherLiterals: the decision pushed, if any.
OtherDecisionOf(info, n, reprLength, isFirst) ==
    LET profit == calculateLiteralProfit(n, reprLength, 1, isFirst)
    IN IF n < 2 THEN <<>>
       ELSE IF info.type = "number" /\ reprLength <= 2 THEN <<>>
       ELSE IF profit > 0
            THEN <<[type |-> info.type, value |-> info.value,
                    occurrences |-> n, profit |-> profit]>>
            ELSE <<>>

\* The loop over otherLiterals, over the keys still to visit.
RECURSIVE OtherDecisions(_, _, _, _)
OtherDecisions(a, keys, stringDecisionCount, hoistDecisions) ==
    IF keys = <<>> THEN hoistDecisions
    ELSE OtherDecisions(a, Tail(keys), stringDecisionCount,
             hoistDecisions
             \o OtherDecisionOf(keys[1], OtherNodeCount(a, keys[1]),
                    getLiteralRepresentationLength(keys[1].value, keys[1].type),
                    stringDecisionCount = 0 /\ Len(hoistDecisions) = 0))

\* hoistDecisions after its sort.
HoistDecisions(a, stringDecisionCount) ==
    SortByOccurrences(OtherDecisions(a, OtherLiteralKeys(a), stringDecisionCount, <<>>))

\* Array.prototype.join
RECURSIVE Join(_, _)
Join(strings, delimiter) ==
    IF strings = <<>> THEN ""
    ELSE IF Len(strings) = 1 THEN strings[1]
    ELSE strings[1] \o delimiter \o Join(Tail(strings), delimiter)

IsStringBinding(b) == b.value.type = "string"

IsOtherBinding(b) == b.value.type # "string"

\* const <name>=<value>,... for the bindings given
ConstDeclaration(bs) ==
    [kind |-> "const", scope |-> 1, site |-> "top",
     declarators |-> [k \in 1..Len(bs) |-> [ids |-> <<bs[k].name>>, init |-> bs[k].value]]]

\* let [<names>]="<joined>".split("<delimiter>")
SplitDeclaration(bs, delimiter) ==
    [kind |-> "let", scope |-> 1, site |-> "top",
     declarators |-> <<[ids |-> [k \in 1..Len(bs) |-> bs[k].name],
                        init |-> [type |-> "split",
                                  value |-> Join([k \in 1..Len(bs) |-> bs[k].value.value],
                                                 delimiter),
                                  delimiter |-> delimiter]]>>]

\* String.prototype.split on a delimiter of one character, as the emitted
\* statement evaluates it.
RECURSIVE Split(_, _)
Split(str, delimiter) ==
    LET hits == {i \in 1..Len(str) : CharOf(str, i) = delimiter}
    IN IF hits = {} THEN <<str>>
       ELSE <<SubSeq(str, 1, (CHOOSE i \in hits : \A j \in hits : i <= j) - 1)>>
            \o Split(SubSeq(str, (CHOOSE i \in hits : \A j \in hits : i <= j) + 1, Len(str)),
                     delimiter)

\* The declaration of the string bindings without the test of the delimiter.
StringDeclarationAnyDelimiter(stringBindings, delimiter) ==
    IF isSplitProfitable(Len(stringBindings))
    THEN SplitDeclaration(stringBindings, delimiter)
    ELSE ConstDeclaration(stringBindings)

\* The declaration of the string bindings: split-packed or const.
StringDeclaration(stringBindings, delimiter) ==
    IF isSplitProfitable(Len(stringBindings)) /\ delimiter # ""
    THEN SplitDeclaration(stringBindings, delimiter)
    ELSE ConstDeclaration(stringBindings)

\* The declarations hoistDuplicateLiterals unshifts, in their final order.
EmitDeclarations(stringBindings, otherBindings) ==
    (IF Len(stringBindings) > 0
     THEN <<StringDeclaration(stringBindings,
                findDelimiter([k \in 1..Len(stringBindings) |->
                                  stringBindings[k].value.value]))>>
     ELSE <<>>)
    \o (IF Len(otherBindings) > 0 THEN <<ConstDeclaration(otherBindings)>> ELSE <<>>)

LiteralDeclarations(hoistedBindings) ==
    EmitDeclarations(SelectSeq(hoistedBindings, IsStringBinding),
                     SelectSeq(hoistedBindings, IsOtherBinding))

\* result.hoistedLiteralBindings
HoistedBindingsOf(stringDecisions, hoistDecisions) ==
    [k \in 1..Len(stringDecisions) |->
        [name |-> LiteralPlaceholder(k - 1),
         value |-> [type |-> "string", value |-> stringDecisions[k].value],
         occurrences |-> stringDecisions[k].occurrences]]
    \o [k \in 1..Len(hoistDecisions) |->
        [name |-> LiteralPlaceholder(Len(stringDecisions) + k - 1),
         value |-> [type |-> hoistDecisions[k].type, value |-> hoistDecisions[k].value],
         occurrences |-> hoistDecisions[k].occurrences]]

\* The rewrite without a look at the flags of the decision: every kind of
\* occurrence is replaced.
ReplacedCatsUnflagged(d) == LiteralCats \cup PropertyAccessCats \cup ObjectPropertyCats

\* The kinds of occurrence of its string that a decision replaces.
ReplacedCats(d) ==
    (IF d.hoistLiterals THEN LiteralCats \cup MemberKeyCats ELSE {})
    \cup (IF d.hoistPropertyAccess THEN PropertyAccessCats ELSE {})
    \cup (IF d.hoistObjectProperties THEN ObjectPropertyCats ELSE {})

\* The decision (an index of stringDecisions) that replaces the occurrence.
StringHit(l, stringDecisions) ==
    {k \in 1..Len(stringDecisions) :
        /\ IsCollectedString(l)
        /\ l.value = stringDecisions[k].value
        /\ l.cat \in ReplacedCats(stringDecisions[k])}

OtherHit(l, hoistDecisions) ==
    {k \in 1..Len(hoistDecisions) :
        /\ IsCollectedOther(l)
        /\ l.type = hoistDecisions[k].type
        /\ l.value = hoistDecisions[k].value}

UndefinedHit(hoistDecisions) ==
    {k \in 1..Len(hoistDecisions) : hoistDecisions[k].type = "undefined"}

\* The rewrite of the occurrences and the unshift of the declarations.  A
\* replaced occurrence is an Identifier node from then on.
ReplaceLiterals(a, stringDecisions, hoistDecisions) ==
    LET placeholderFor(l) ==
            IF StringHit(l, stringDecisions) # {}
            THEN LiteralPlaceholder((CHOOSE k \in StringHit(l, stringDecisions) : TRUE) - 1)
            ELSE LiteralPlaceholder(Len(stringDecisions)
                     + (CHOOSE k \in OtherHit(l, hoistDecisions) : TRUE) - 1)
        replaced == {i \in DOMAIN a.lits :
                        \/ StringHit(a.lits[i], stringDecisions) # {}
                        \/ OtherHit(a.lits[i], hoistDecisions) # {}}
        undefinedName ==
            LiteralPlaceholder(Len(stringDecisions)
                + (CHOOSE k \in UndefinedHit(hoistDecisions) : TRUE) - 1)
    IN [ast |-> [a EXCEPT
            !.lits = [k \in 1..Cardinality(DOMAIN a.lits \ replaced) |->
                         a.lits[SelectIndexes(a.lits, DOMAIN a.lits \ replaced)[k]]],
            !.idents =
                [i \in DOMAIN a.idents |->
                    IF UndefinedHit(hoistDecisions) # {} /\ IsCollectedUndefined(a.idents[i])
                    THEN [a.idents[i] EXCEPT !.name = undefinedName, !.ref = 0]
                    ELSE a.idents[i]]
                \o [k \in 1..Cardinality(replaced) |->
                    [name |-> placeholderFor(a.lits[SelectIndexes(a.lits, replaced)[k]]),
                     scope |-> a.lits[SelectIndexes(a.lits, replaced)[k]].scope,
                     ctx |-> IF a.lits[SelectIndexes(a.lits, replaced)[k]].cat \in MemberKeyCats
                             THEN "methodName" ELSE "read",
                     ref |-> 0]],
            !.decls = LiteralDeclarations(HoistedBindingsOf(stringDecisions, hoistDecisions))
                      \o a.decls],
        hoistedLiteralBindings |-> HoistedBindingsOf(stringDecisions, hoistDecisions)]

HoistLiteralsFrom(a, stringDecisions) ==
    ReplaceLiterals(a, stringDecisions, HoistDecisions(a, Len(stringDecisions)))

hoistDuplicateLiterals(a) == HoistLiteralsFrom(a, StringDecisions(a))

----------------------------------------------------------------------------
(* transforms/mangleIdentifiers *)

RESERVED_WORDS ==
    {"break", "case", "catch", "continue", "debugger", "default", "delete", "do",
     "else", "finally", "for", "function", "if", "in", "instanceof", "new",
     "return", "switch", "this", "throw", "try", "typeof", "var", "void", "while",
     "with", "class", "const", "enum", "export", "extends", "import", "super",
     "implements", "interface", "let", "package", "private", "protected", "public",
     "static", "yield", "null", "true", "false", "undefined", "NaN", "Infinity",
     "eval", "arguments"}

\* CHARS in the order of the alphabet.
CHARSAlphabetical == "abcdefghijklmnopqrstuvwxyzABCDEFGHIJKLMNOPQRSTUVWXYZ$_"

CHARS == "etaonirshldcumfpgwybvkxjqzETAONIRSHLDCUMFPGWYBVKXJQZ$_"

\* CHARS[i], i counted from 0.
CharAt(i) == SubSeq(CHARS, i + 1, i + 1)

\* The while loop of indexToName.
RECURSIVE indexToNameLoop(_, _)
indexToNameLoop(remaining, result) ==
    IF remaining < 0 THEN result
    ELSE IF remaining < Len(CHARS) THEN CharAt(remaining) \o result
    ELSE indexToNameLoop((remaining \div Len(CHARS)) - 1,
                         CharAt(remaining % Len(CHARS)) \o result)

\* indexToName as the plain numeral of the index in base CHARS.length.
indexToNamePlainBase(index) ==
    LET base == Len(CHARS)
    IN IF index < base THEN CharAt(index)
       ELSE indexToNameLoop(index \div base, CharAt(index % base))

indexToName(index) ==
    LET base == Len(CHARS)
    IN IF index < base THEN CharAt(index)
       ELSE LET remaining == index - base
            IN indexToNameLoop(remaining \div base, CharAt(remaining % base))

\* The index at which indexToName gives `name`, a non-empty string of the
\* characters of CHARS: the last character counts units of the base, the
\* rest counts, from 1, the rounds of the base gone by.
RECURSIVE IndexOf(_)
IndexOf(name) ==
    LET base == Len(CHARS)
        position(char) == CHOOSE i \in 0..(base - 1) : CharAt(i) = char
        last == position(SubSeq(name, Len(name), Len(name)))
    IN IF Len(name) = 1 THEN last
       ELSE base * (IndexOf(SubSeq(name, 1, Len(name) - 1)) + 1) + last

\* The test of next() without the reserved words: only the names reserved
\* in the scope are passed over.
IsSkippedReservedOnly(name, reserved) == name \in reserved

\* The test of the do-while loop of next(): the name is passed over.
IsSkipped(name, reserved) == name \in RESERVED_WORDS \/ name \in reserved

\* The names the first `count` calls of the generator's next() return.  Each
\* call goes on from the index the call before stopped at and passes over the
\* skipped names, so the k-th call returns the k-th name of indexToName(0),
\* indexToName(1), ... that is not skipped; a skipped name is a reserved word
\* or a reserved name, so `count` plus their number of indexes hold them all.
GeneratedNames(count, reserved) ==
    SubSeq(SelectSeq([i \in 1..(count + Cardinality(RESERVED_WORDS \cup reserved)) |->
                         indexToName(i - 1)],
                     LAMBDA name : ~IsSkipped(name, reserved)),
           1, count)

\* The identifier's place makes it a reference of its binding
\* (binding.referencePaths): a read, and also the argument of an update
\* expression (counter++) and the identifier that is the left side of a
\* for-in or for-of statement (for (counter of items)).
IsReferenceCtx(ctx) ==
    ctx \in {"read", "memberObject", "typeofArg", "updateArgument", "forLeft"}

\* The identifier's place makes it a write of its binding, and the path of
\* the write is in binding.constantViolations: the assignment expression of
\* an identifier on the left (assignLeft) or of an identifier inside a
\* pattern on the left ([counter] = items: patternElement), the update
\* expression, the for-in or for-of statement, the declarator that declares
\* the name again (var counter; var counter: redeclaration).
IsViolationCtx(ctx) ==
    ctx \in {"assignLeft", "patternElement", "updateArgument", "forLeft", "redeclaration"}

referencePaths(a, b) ==
    {i \in DOMAIN a.idents : a.idents[i].ref = b /\ IsReferenceCtx(a.idents[i].ctx)}

constantViolations(a, b) ==
    {i \in DOMAIN a.idents : a.idents[i].ref = b /\ IsViolationCtx(a.idents[i].ctx)}

\* The proper ancestors of a scope.
Ancestors(parent, s) == Range(ScopeChain(parent, parent[s]))

\* getReservedNamesForScope looking only at the references directly in the
\* scope, not at those in its descendants.
getReservedNamesForScopeShallow(a, scope, rm) ==
    {rm[b] : b \in {c \in DOMAIN rm :
        /\ a.bindings[c].scope \in Ancestors(a.parent, scope)
        /\ \/ \E i \in referencePaths(a, c) : a.idents[i].scope = scope
           \/ \E i \in constantViolations(a, c) : a.idents[i].scope = scope}}

\* getReservedNamesForScope looking only at binding.referencePaths, not at
\* binding.constantViolations.
getReservedNamesForScopeReadsOnly(a, scope, rm) ==
    {rm[b] : b \in {c \in DOMAIN rm :
        /\ a.bindings[c].scope \in Ancestors(a.parent, scope)
        /\ \E i \in referencePaths(a, c) : isInsideScope(a.parent, a.idents[i].scope, scope)}}

getReservedNamesForScope(a, scope, rm) ==
    {rm[b] : b \in {c \in DOMAIN rm :
        /\ a.bindings[c].scope \in Ancestors(a.parent, scope)
        /\ \/ \E i \in referencePaths(a, c) :
                  isInsideScope(a.parent, a.idents[i].scope, scope)
           \/ \E i \in constantViolations(a, c) :
                  isInsideScope(a.parent, a.idents[i].scope, scope)}}

\* binding.scope's own bindings, in declaration order.
OwnBindings(a, s) == SelectIndexes(a.bindings, {b \in DOMAIN a.bindings : a.bindings[b].scope = s})

\* references: 1 + binding.referencePaths.length + binding.constantViolations.length
ReferenceCount(a, b) ==
    1 + Cardinality(referencePaths(a, b)) + Cardinality(constantViolations(a, b))

\* sortedBindings of a scope without the sort: the bindings in declaration
\* order.
SortedBindingsUnsorted(a, s) == OwnBindings(a, s)

\* sortedBindings of a scope.
SortedBindings(a, s) ==
    LET own == OwnBindings(a, s)
        order == SortedIndexesDesc([k \in 1..Len(own) |-> ReferenceCount(a, own[k])])
    IN [k \in 1..Len(own) |-> own[order[k]]]

\* The loop `for (const { binding } of sortedBindings)` of one scope.
AssignNames(sorted, names, rm) ==
    [b \in DOMAIN rm \cup Range(sorted) |->
        IF b \in Range(sorted)
        THEN names[CHOOSE k \in DOMAIN sorted : sorted[k] = b]
        ELSE rm[b]]

\* One scope: its bindings sorted, a generator made for its reserved names.
AssignScope(sorted, reserved, rm) ==
    AssignNames(sorted, GeneratedNames(Len(sorted), reserved), rm)

\* The loop `for (const scopeInfo of scopeInfos)`: the scopes in traversal
\* order, from scope s on.
RECURSIVE AssignScopes(_, _, _)
AssignScopes(a, s, rm) ==
    IF s > Len(a.parent) THEN rm
    ELSE AssignScopes(a, s + 1,
             AssignScope(SortedBindings(a, s), getReservedNamesForScope(a, s, rm), rm))

\* The rename map when the program scope is left alone.
MangleRenameMapNestedOnly(a) == AssignScopes(a, 2, <<>>)

\* The rename map mangleIdentifiers decides: binding -> new name.
MangleRenameMap(a) == AssignScopes(a, 1, <<>>)

StartsWith(s, prefix) == Len(s) >= Len(prefix) /\ SubSeq(s, 1, Len(prefix)) = prefix

\* The identifier node is given its binding's new name by the loop over
\* renameMap: a reference path, a violation path that is the identifier, or
\* the identifier on the left of a violating assignment expression.
IsRenamedCtx(ctx) == IsReferenceCtx(ctx) \/ ctx \in {"assignLeft"}

\* placeholderRenames: old `__niu_` name -> new name (a later set wins).
PlaceholderRenames(a, rm) ==
    [old \in {a.bindings[b].name : b \in {c \in DOMAIN rm :
                 StartsWith(a.bindings[c].name, "__niu_")}} |->
        rm[CHOOSE b \in DOMAIN rm : /\ a.bindings[b].name = old
                                    /\ \A c \in DOMAIN rm : a.bindings[c].name = old => c <= b]]

\* The name the batch traversal leaves on an Identifier node.
BatchRename(placeholderRenames, name) ==
    IF name \in DOMAIN placeholderRenames THEN placeholderRenames[name] ELSE name

\* The name of a declared identifier after the loop over renameMap.
DeclaredName(a, rm, scope, name) ==
    LET owner == {b \in DOMAIN rm : a.bindings[b].scope = scope /\ a.bindings[b].name = name}
    IN IF owner = {} THEN name ELSE rm[CHOOSE b \in owner : \A c \in owner : b <= c]

\* The loop over renameMap and the batch traversal.
ApplyRenames(a, rm, placeholderRenames) ==
    [ast |-> [a EXCEPT
        !.bindings = [b \in DOMAIN a.bindings |->
            [a.bindings[b] EXCEPT
                !.name = BatchRename(placeholderRenames,
                                     IF b \in DOMAIN rm THEN rm[b] ELSE @)]],
        !.idents = [i \in DOMAIN a.idents |->
            [a.idents[i] EXCEPT
                !.name = BatchRename(placeholderRenames,
                                     IF /\ a.idents[i].ref \in DOMAIN rm
                                        /\ IsRenamedCtx(a.idents[i].ctx)
                                     THEN rm[a.idents[i].ref] ELSE @)]],
        !.decls = [k \in DOMAIN a.decls |->
            [a.decls[k] EXCEPT
                !.declarators = [j \in DOMAIN a.decls[k].declarators |->
                    [a.decls[k].declarators[j] EXCEPT
                        !.ids = [m \in DOMAIN a.decls[k].declarators[j].ids |->
                                    BatchRename(placeholderRenames,
                                        DeclaredName(a, rm, a.decls[k].scope,
                                            a.decls[k].declarators[j].ids[m]))],
                        !.init = IF @.type = "identifier"
                                 THEN [@ EXCEPT
                                          !.value = BatchRename(placeholderRenames, @)]
                                 ELSE @]]]]],
     renameMap |-> rm]

MangleWith(a, rm) == ApplyRenames(a, rm, PlaceholderRenames(a, rm))

mangleIdentifiers(a) == MangleWith(a, MangleRenameMap(a))

----------------------------------------------------------------------------
(* transforms/constsToLets *)

\* constsToLets visiting the top-level declarations only.
constsToLetsTopLevel(a) ==
    [ast |-> [a EXCEPT
        !.decls = [k \in DOMAIN a.decls |->
            IF a.decls[k].kind = "const" /\ a.decls[k].site = "top"
            THEN [a.decls[k] EXCEPT !.kind = "let"]
            ELSE a.decls[k]]]]

\* constsToLets setting the kind of every declaration.
constsToLetsEveryKind(a) ==
    [ast |-> [a EXCEPT !.decls = [k \in DOMAIN a.decls |-> [a.decls[k] EXCEPT !.kind = "let"]]]]

constsToLets(a) ==
    [ast |-> [a EXCEPT
        !.decls = [k \in DOMAIN a.decls |->
            IF a.decls[k].kind = "const"
            THEN [a.decls[k] EXCEPT !.kind = "let"]
            ELSE a.decls[k]]]]

----------------------------------------------------------------------------
(* index.ts: minify *)

EmptyCode == [parent |-> <<0>>, binders |-> <<>>, idents |-> <<>>, lits |-> <<>>, decls |-> <<>>]

\* let inputCode = code; if (terserOptions !== undefined) { ... }
\* The awaited pre-pass resolves with code, resolves without code, or rejects;
\* a rejection is not caught and rejects the minify call.
TerserStep ==
    /\ pc = "start"
    /\ IF options.terserOptions /\ terserResult.kind = "throws"
       THEN /\ pc' = "rejected"
            /\ output' = [rejected |-> TRUE]
            /\ inputCode' = code
       ELSE /\ pc' = "prepassed"
            /\ output' = output
            /\ inputCode' = IF options.terserOptions /\ terserResult.kind = "code"
                            THEN terserResult.code ELSE code
    /\ steps' = IF options.terserOptions THEN Append(steps, "terserMinify") ELSE steps
    /\ UNCHANGED <<code, options, terserResult, ast, intermediate, hoistedGlobals,
                   hoistedLiteralBindings, renameMap>>

\* let ast = parse(inputCode, PARSER_OPTIONS)
ParseStep ==
    /\ pc = "prepassed"
    /\ ast' = parse(inputCode)
    /\ pc' = "parsed"
    /\ steps' = Append(steps, "parse")
    /\ UNCHANGED <<code, options, terserResult, inputCode, intermediate, hoistedGlobals,
                   hoistedLiteralBindings, renameMap, output>>

\* if (doHoistGlobals === true) { ast = hoistGlobals(ast).ast }
HoistGlobalsStep ==
    /\ pc = "parsed"
    /\ IF options.hoistGlobals
       THEN \E result \in {hoistGlobals(ast)} :
                /\ ast' = result.ast
                /\ hoistedGlobals' = result.hoistedGlobals
                /\ steps' = Append(steps, "hoistGlobals")
       ELSE UNCHANGED <<ast, hoistedGlobals, steps>>
    /\ pc' = "globals"
    /\ UNCHANGED <<code, options, terserResult, inputCode, intermediate,
                   hoistedLiteralBindings, renameMap, output>>

\* if (doHoist === true) { ast = hoistDuplicateLiterals(ast, options).ast }
HoistLiteralsStep ==
    /\ pc = "globals"
    /\ IF options.hoistDuplicateLiterals
       THEN \E result \in {hoistDuplicateLiterals(ast)} :
                /\ ast' = result.ast
                /\ hoistedLiteralBindings' = result.hoistedLiteralBindings
                /\ steps' = Append(steps, "hoistDuplicateLiterals")
       ELSE UNCHANGED <<ast, hoistedLiteralBindings, steps>>
    /\ pc' = "literals"
    /\ UNCHANGED <<code, options, terserResult, inputCode, intermediate, hoistedGlobals,
                   renameMap, output>>

\* const intermediate = generate(ast, { compact: true })
IntermediateStep ==
    /\ pc = "literals"
    /\ intermediate' = generate(ast)
    /\ pc' = "printed"
    /\ steps' = Append(steps, "generate")
    /\ UNCHANGED <<code, options, terserResult, inputCode, ast, hoistedGlobals,
                   hoistedLiteralBindings, renameMap, output>>

\* ast = parse(intermediate.code, PARSER_OPTIONS)
ReparseStep ==
    /\ pc = "printed"
    /\ ast' = parse(intermediate)
    /\ pc' = "reparsed"
    /\ steps' = Append(steps, "parse")
    /\ UNCHANGED <<code, options, terserResult, inputCode, intermediate, hoistedGlobals,
                   hoistedLiteralBindings, renameMap, output>>

\* The mangling step run only when a hoist is switched on.
MangleStepWhenHoisting ==
    /\ pc = "reparsed"
    /\ IF options.hoistGlobals \/ options.hoistDuplicateLiterals
       THEN \E result \in {mangleIdentifiers(ast)} :
                /\ ast' = result.ast
                /\ renameMap' = result.renameMap
                /\ steps' = Append(steps, "mangleIdentifiers")
       ELSE UNCHANGED <<ast, renameMap, steps>>
    /\ pc' = "mangled"
    /\ UNCHANGED <<code, options, terserResult, inputCode, intermediate, hoistedGlobals,
                   hoistedLiteralBindings, output>>

\* ast = mangleIdentifiers(ast).ast
MangleStep ==
    /\ pc = "reparsed"
    /\ \E result \in {mangleIdentifiers(ast)} :
           /\ ast' = result.ast
           /\ renameMap' = result.renameMap
    /\ pc' = "mangled"
    /\ steps' = Append(steps, "mangleIdentifiers")
    /\ UNCHANGED <<code, options, terserResult, inputCode, intermediate, hoistedGlobals,
                   hoistedLiteralBindings, output>>

\* if (doConstsToLets === true) { ast = constsToLets(ast).ast }
ConstsToLetsStep ==
    /\ pc = "mangled"
    /\ IF options.constsToLets
       THEN /\ ast' = constsToLets(ast).ast
            /\ steps' = Append(steps, "constsToLets")
       ELSE UNCHANGED <<ast, steps>>
    /\ pc' = "lets"
    /\ UNCHANGED <<code, options, terserResult, inputCode, intermediate, hoistedGlobals,
                   hoistedLiteralBindings, renameMap, output>>

\* return { code: generate(ast, { compact: true, minified: true, ... }).code }
OutputStep ==
    /\ pc = "lets"
    /\ output' = [code |-> generate(ast)]
    /\ pc' = "done"
    /\ steps' = Append(steps, "generate")
    /\ UNCHANGED <<code, options, terserResult, inputCode, ast, intermediate,
                   hoistedGlobals, hoistedLiteralBindings, renameMap>>

Next ==
    \/ TerserStep
    \/ ParseStep
    \/ HoistGlobalsStep
    \/ HoistLiteralsStep
    \/ IntermediateStep
    \/ ReparseStep
    \/ MangleStep
    \/ ConstsToLetsStep
    \/ OutputStep

\* The code a call of minify returns that is not rejected: the statements of
\* minify one after the other, `prepass` being what the pre-pass does when it
\* is called.
minifyCode(c, o, prepass) ==
    LET input == IF o.terserOptions /\ prepass.kind = "code" THEN prepass.code ELSE c
        parsed == parse(input)
        afterGlobals == IF o.hoistGlobals THEN hoistGlobals(parsed).ast ELSE parsed
        afterLiterals == IF o.hoistDuplicateLiterals
                         THEN hoistDuplicateLiterals(afterGlobals).ast ELSE afterGlobals
        mangled == mangleIdentifiers(parse(generate(afterLiterals))).ast
        final == IF o.constsToLets THEN constsToLets(mangled).ast ELSE mangled
    IN generate(final)

----------------------------------------------------------------------------
(* The calls of minify: the programs and options it is called with *)

Identifier(name, scope, ctx) == [name |-> name, scope |-> scope, ctx |-> ctx]

Repeat(x, n) == [k \in 1..n |-> x]

RECURSIVE Flatten(_)
Flatten(ss) == IF ss = <<>> THEN <<>> ELSE ss[1] \o Flatten(Tail(ss))

SeqsUpTo(S, n) == UNION {[1..k -> S] : k \in 0..n}

\* The sequences over 1..k of length n that never decrease.
RECURSIVE NonDecreasing(_, _)
NonDecreasing(k, n) ==
    IF n = 0 THEN {<<>>}
    ELSE UNION {{Append(s, j) : j \in (IF s = <<>> THEN 1 ELSE s[Len(s)])..k} :
                   s \in NonDecreasing(k, n - 1)}

\* An initializer the passes do not look into.
Expression == [type |-> "expression", value |-> ""]

Declaration(kind, scope, site, ids) ==
    [kind |-> kind, scope |-> scope, site |-> site,
     declarators |-> [k \in 1..Len(ids) |-> [ids |-> ids[k], init |-> Expression]]]

Kinds == {"const", "let", "var"}

AllOptions ==
    [terserOptions : BOOLEAN, hoistGlobals : BOOLEAN, hoistDuplicateLiterals : BOOLEAN,
     constsToLets : BOOLEAN]

NoOptions ==
    [terserOptions |-> FALSE, hoistGlobals |-> FALSE, hoistDuplicateLiterals |-> FALSE,
     constsToLets |-> FALSE]

\* What the pre-pass returns when it returns code: some other program.
TerserCode ==
    [parent |-> <<0>>, binders |-> <<[name |-> "n", scope |-> 1]>>,
     idents |-> <<Identifier("n", 1, "read")>>, lits |-> <<>>,
     decls |-> <<Declaration("var", 1, "top", <<<<"n">>>>)>>]

TerserResults ==
    {[kind |-> "code", code |-> TerserCode], [kind |-> "nocode"], [kind |-> "throws"]}

\* The state of a minify call before its first statement.
InitCall(programs, optionSets) ==
    /\ pc = "start"
    /\ code \in programs
    /\ options \in optionSets
    /\ terserResult \in IF options.terserOptions THEN TerserResults ELSE {[kind |-> "none"]}
    /\ inputCode = EmptyCode
    /\ ast = parse(EmptyCode)
    /\ intermediate = EmptyCode
    /\ hoistedGlobals = <<>>
    /\ hoistedLiteralBindings = <<>>
    /\ renameMap = <<>>
    /\ steps = <<>>
    /\ output = [pending |-> TRUE]

\* Programs for the whole pipeline:
\*   <kind> config = ...; function f() { let item; item = config;
\*     URLSearchParams.x (g times); "abcdefghi" (s times) }  null (n times)
MaxUses == 3

PipelineCode(g, s, n, kind) ==
    [parent  |-> <<0, 1>>,
     binders |-> <<[name |-> "config", scope |-> 1], [name |-> "item", scope |-> 2]>>,
     idents  |-> <<Identifier("item", 2, "assignLeft"), Identifier("config", 2, "read")>>
                 \o Repeat(Identifier("URLSearchParams", 2, "memberObject"), g),
     lits    |-> Repeat([type |-> "string", value |-> "abcdefghi", cat |-> "literal",
                         scope |-> 2], s)
                 \o Repeat([type |-> "null", value |-> "null", cat |-> "literal",
                            scope |-> 1], n),
     decls   |-> <<Declaration(kind, 1, "top", <<<<"config">>>>),
                   Declaration("let", 2, "function", <<<<"item">>>>)>>]

PipelineFamily ==
    {PipelineCode(g, s, n, kind) : g \in 0..MaxUses, s \in 0..MaxUses, n \in 0..MaxUses,
                                   kind \in Kinds}

Init == InitCall(PipelineFamily, AllOptions)

Spec == Init /\ [][Next]_vars

----------------------------------------------------------------------------
(* hoistGlobals on its own: calls with only hoistGlobals switched on or off *)

\* Programs  <uses at top level>; function f(<params>) { <uses> }  whose
\* identifiers are member-expression objects and typeof operands named
\* URLSearchParams and Reflect, and member-expression objects named undefined;
\* f may take a parameter named URLSearchParams.
MaxGlobalUses == 4

GlobalUses ==
    {Identifier("URLSearchParams", scope, ctx) :
        scope \in {1, 2}, ctx \in {"memberObject", "typeofArg"}}
    \cup {Identifier("Reflect", 1, ctx) : ctx \in {"memberObject", "typeofArg"}}
    \cup {Identifier("undefined", 1, "memberObject")}

GlobalsFamily ==
    {[parent |-> <<0, 1>>, binders |-> params, idents |-> uses, lits |-> <<>>,
      decls |-> <<>>] :
        params \in {<<>>, <<[name |-> "URLSearchParams", scope |-> 2]>>},
        uses \in SeqsUpTo(GlobalUses, MaxGlobalUses)}

InitGlobals ==
    InitCall(GlobalsFamily, {[NoOptions EXCEPT !.hoistGlobals = on] : on \in BOOLEAN})

NextGlobals == TerserStep \/ ParseStep \/ HoistGlobalsStep

SpecGlobals == InitGlobals /\ [][NextGlobals]_vars

----------------------------------------------------------------------------
(* mangleIdentifiers on its own: calls with every option off *)

\* The programs of at most MaxSize scopes (beyond the program scope), binders
\* and identifiers.  The binders have distinct names, so that an identifier
\* names the binding it resolves to; an identifier is a read or an assignment
\* target of a binding of an enclosing scope, or a read of the global `e`.
\* The mangler reads the references of a binding as a set: the identifiers
\* are listed in one fixed order.
MaxSize == 5

RECURSIVE ScopeTrees(_)
ScopeTrees(n) ==
    IF n = 1 THEN {<<0>>}
    ELSE UNION {{Append(parent, q) : q \in Range(ScopeChain(parent, n - 1))} :
                   parent \in ScopeTrees(n - 1)}

LocalName(k) == "v" \o ToString(k)

\* The identifiers a program of this scope tree and these binders can hold.
IdentifierChoices(parent, scopes) ==
    LET ns == Len(parent)
        nc == 2
        at(i) == LET k == (i - 1) \div (nc * ns)
                     s == (((i - 1) \div nc) % ns) + 1
                     c == (i - 1) % nc
                 IN [binder |-> k, scope |-> s, ctx |-> IF c = 0 THEN "read" ELSE "assignLeft"]
        ok(x) == IF x.binder = 0 THEN x.ctx = "read"
                 ELSE isInsideScope(parent, x.scope, scopes[x.binder])
        node(x) == Identifier(IF x.binder = 0 THEN "e" ELSE LocalName(x.binder),
                              x.scope, x.ctx)
        all == [i \in 1..((Len(scopes) + 1) * ns * nc) |-> at(i)]
        valid == SelectSeq(all, ok)
    IN [i \in 1..Len(valid) |-> node(valid[i])]

MangleCode(parent, scopes, choices, picked) ==
    [parent  |-> parent,
     binders |-> [k \in 1..Len(scopes) |-> [name |-> LocalName(k), scope |-> scopes[k]]],
     idents  |-> [i \in 1..Len(picked) |-> choices[picked[i]]],
     lits    |-> <<>>,
     decls   |-> <<>>]

MangleCodes(parent, scopes, choices, size) ==
    UNION {{MangleCode(parent, scopes, choices, picked) :
               picked \in NonDecreasing(Len(choices), ni)} : ni \in 0..size}

MangleFamily ==
    UNION {UNION {UNION {UNION {
        MangleCodes(parent, scopes, IdentifierChoices(parent, scopes),
                    MaxSize - (ns - 1) - nb) :
            scopes \in NonDecreasing(ns, nb)} :
            nb \in 0..(MaxSize - (ns - 1))} :
            parent \in ScopeTrees(ns)} :
            ns \in 1..(MaxSize + 1)}

InitMangle == InitCall(MangleFamily, {NoOptions})

NextMangle ==
    \/ TerserStep
    \/ ParseStep
    \/ HoistGlobalsStep
    \/ HoistLiteralsStep
    \/ IntermediateStep
    \/ ReparseStep
    \/ MangleStep

SpecMangle == InitMangle /\ [][NextMangle]_vars

----------------------------------------------------------------------------
(* mangleIdentifiers on programs with property names: a program scope and a
   function scope, one declaration named config or __niu_config, and
   identifiers named config, __niu_config or console that are read, written,
   the object or the property of a member expression, an object key or a
   method name:
     var __niu_config; function f() { console.__niu_config; ({ config: 0 }) } *)

MaxIdentifiers == 2

FrameCode(binderName, binderScope, identifiers) ==
    [parent  |-> <<0, 1>>,
     binders |-> <<[name |-> binderName, scope |-> binderScope]>>,
     idents  |-> identifiers,
     lits    |-> <<>>,
     decls   |-> <<>>]

FrameIdentifiers ==
    {Identifier(name, scope, ctx) :
        name \in {"config", "__niu_config", "console"},
        scope \in {1, 2},
        ctx \in {"read", "assignLeft", "memberObject",
                 "memberProperty", "objectKey", "methodName"}}

InitFrame ==
    InitCall({FrameCode(binderName, binderScope, identifiers) :
                 binderName \in {"config", "__niu_config"},
                 binderScope \in {1, 2},
                 identifiers \in SeqsUpTo(FrameIdentifiers, MaxIdentifiers)},
             {NoOptions})

SpecFrame == InitFrame /\ [][NextMangle]_vars

----------------------------------------------------------------------------
(* mangleIdentifiers on programs that write a binding: a program scope and a
   function scope, one declaration named counter, and identifiers named
   counter or items at the write sites and at a read:
     var counter; function f() { counter = 0; counter++; [counter] = items;
                                 for (counter of items); var counter; counter }
   A declarator declares counter again only in the scope of its binding. *)

MaxWrites == 2

WriteCtxs == {"assignLeft", "updateArgument", "patternElement", "forLeft", "redeclaration"}

WriteIdentifiers(binderScope) ==
    {id \in {Identifier(name, scope, ctx) :
                name \in {"counter", "items"},
                scope \in {1, 2},
                ctx \in WriteCtxs \cup {"read"}} :
        id.ctx = "redeclaration" => (id.name = "counter" /\ id.scope = binderScope)}

InitWrites ==
    InitCall(UNION {{FrameCode("counter", binderScope, identifiers) :
                        identifiers \in SeqsUpTo(WriteIdentifiers(binderScope), MaxWrites)} :
                    binderScope \in {1, 2}},
             {NoOptions})

SpecWrites == InitWrites /\ [][NextMangle]_vars

----------------------------------------------------------------------------
(* hoistDuplicateLiterals on its own: calls with only that pass switched on *)

\* Programs of up to MaxStrings distinct strings, each written as a plain
\* string literal `uses` times, followed by up to MaxNulls `null` literals.
\* The shapes: nine characters twice (profit 6, enough for the first slot),
\* two characters twice (profit -1, marginal), two characters three times
\* (profit 2, too little for the first slot).
MaxStrings == 7

MaxNulls == 3

StringShapes ==
    {[length |-> 9, uses |-> 2], [length |-> 2, uses |-> 2], [length |-> 2, uses |-> 3]}

\* The k-th string of a program: its own first letter, then filler.
StringValue(k, length) == CharOf("abcdefghijklmnopqrstuvwxy", k) \o SubSeq("zzzzzzzz", 1, length - 1)

StringLiteral(value) == [type |-> "string", value |-> value, cat |-> "literal", scope |-> 1]

NullLiteral == [type |-> "null", value |-> "null", cat |-> "literal", scope |-> 1]

LiteralsCode(shapes, nulls) ==
    [parent  |-> <<0>>,
     binders |-> <<>>,
     idents  |-> <<>>,
     lits    |-> Flatten([k \in 1..Len(shapes) |->
                     Repeat(StringLiteral(StringValue(k, shapes[k].length)), shapes[k].uses)])
                 \o Repeat(NullLiteral, nulls),
     decls   |-> <<>>]

LiteralsFamily ==
    {LiteralsCode(shapes, nulls) :
        shapes \in SeqsUpTo(StringShapes, MaxStrings), nulls \in 0..MaxNulls}

InitLiterals == InitCall(LiteralsFamily, {[NoOptions EXCEPT !.hoistDuplicateLiterals = TRUE]})

NextLiterals == TerserStep \/ ParseStep \/ HoistGlobalsStep \/ HoistLiteralsStep

SpecLiterals == InitLiterals /\ [][NextLiterals]_vars

----------------------------------------------------------------------------
(* Programs for the name generator: a program scope of many bindings, the
   last of them read some times, with or without a function that declares a
   binding of its own and holds those reads. *)

MaxBindings == 600

MaxReferences == 2

\* The numbers of bindings: a few, around the length of CHARS, around the
\* numbers at which the generator comes to a reserved word of two letters,
\* and the most.
BindingCounts ==
    {count \in (0..3) \cup ((Len(CHARS) - 1)..(Len(CHARS) + 2))
               \cup {IndexOf(word) + d : word \in {"in", "if", "do"}, d \in {-1, 0, 1}} :
        count <= MaxBindings}
    \cup {MaxBindings}

NamesCode(bindings, references, nested) ==
    [parent  |-> IF nested THEN <<0, 1>> ELSE <<0>>,
     binders |-> [k \in 1..bindings |-> [name |-> LocalName(k), scope |-> 1]]
                 \o (IF nested THEN <<[name |-> "inner", scope |-> 2]>> ELSE <<>>),
     idents  |-> IF bindings = 0 THEN <<>>
                 ELSE Repeat(Identifier(LocalName(bindings), IF nested THEN 2 ELSE 1, "read"),
                             references),
     lits    |-> <<>>,
     decls   |-> <<>>]

NamesFamily ==
    {NamesCode(bindings, references, nested) :
        bindings \in BindingCounts, references \in 0..MaxReferences, nested \in BOOLEAN}

InitNames == InitCall(NamesFamily, {NoOptions})

SpecNames == InitNames /\ [][NextMangle]_vars

----------------------------------------------------------------------------
(* Programs for the string decisions of hoistDuplicateLiterals: up to
   MaxPadding long strings used twice each, one more string in a choice of
   lengths, of places of use and of characters, and null, used MaxNulls times
   or not at all. *)

MaxPadding == 7

MaxLiteralUses == 4

MaxDotUses == 2

MaxKeyUses == 2

\* Property names, by length 2 to 5.
PropertyNames == {"ab", "abc", "abcd", "abcde"}

\* A string that holds every character findDelimiter tries.
NoDelimiterValue ==
    " !#$%&()*+,-./0123456789:;<=>?@ABCDEFGHIJKLMNOPQRSTUVWXYZ[]^_\tabcdefghijklmnopqrstuvwxyz{|}~"

\* Strings that are no identifier names: they occur as string literals only.
TextValues == {"a,b", "", NoDelimiterValue}

StringUse(value, cat) == [type |-> "string", value |-> value, cat |-> cat, scope |-> 1]

\* The uses of one string: as a string literal at a place of LiteralCats, as
\* the property of a dot access, as a key.
StringUses(value, literalCat, literals, dots, keyCat, keys) ==
    Repeat(StringUse(value, literalCat), literals)
    \o Repeat(StringUse(value, "dotAccess"), dots)
    \o Repeat(StringUse(value, keyCat), keys)

UsesOf(value) ==
    {StringUses(value, literalCat, literals, dots, keyCat, keys) :
        literalCat \in LiteralCats, literals \in 0..MaxLiteralUses,
        dots \in (IF value \in PropertyNames THEN 0..MaxDotUses ELSE {0}),
        keyCat \in ObjectPropertyCats,
        keys \in (IF value \in PropertyNames THEN 0..MaxKeyUses ELSE {0})}

StringsCode(padding, uses, nulls) ==
    [parent  |-> <<0>>,
     binders |-> <<>>,
     idents  |-> <<>>,
     lits    |-> Flatten([k \in 1..padding |-> Repeat(StringLiteral(StringValue(k, 9)), 2)])
                 \o uses \o Repeat(NullLiteral, nulls),
     decls   |-> <<>>]

StringsFamily ==
    {StringsCode(padding, uses, nulls) :
        padding \in 0..MaxPadding,
        uses \in UNION {UsesOf(value) : value \in PropertyNames \cup TextValues},
        nulls \in {0, MaxNulls}}

InitStrings == InitCall(StringsFamily, {[NoOptions EXCEPT !.hoistDuplicateLiterals = TRUE]})

SpecStrings == InitStrings /\ [][NextLiterals]_vars

----------------------------------------------------------------------------
(* Programs for the selection of the string candidates: a short string used
   up to MaxProbeUses times before the long strings, up to MaxPadding long
   strings used twice each, and a short string used up to MaxProbeUses times
   after them:
     f("ab", "ab", "azzzzzzzz", "azzzzzzzz", "bzzzzzzzz", "bzzzzzzzz", "", "") *)

MaxProbeUses == 3

\* Strings of 0, 2 and 3 characters.
ProbeValues == {"", "ab", "abc"}

Probes == {Repeat(StringLiteral(value), uses) : value \in ProbeValues, uses \in 0..MaxProbeUses}

SelectionCode(leading, padding, trailing) ==
    [parent  |-> <<0>>,
     binders |-> <<>>,
     idents  |-> <<>>,
     lits    |-> leading
                 \o Flatten([k \in 1..padding |-> Repeat(StringLiteral(StringValue(k, 9)), 2)])
                 \o trailing,
     decls   |-> <<>>]

SelectionFamily ==
    {SelectionCode(leading, padding, trailing) :
        leading \in Probes, padding \in 0..MaxPadding, trailing \in Probes}

InitSelection ==
    InitCall(SelectionFamily, {[NoOptions EXCEPT !.hoistDuplicateLiterals = TRUE]})

SpecSelection == InitSelection /\ [][NextLiterals]_vars

----------------------------------------------------------------------------
(* Programs for the decisions on the literals that are no strings: a long
   string used twice or no string, a number of 1, 2 or 3 digits used up to
   MaxNumberUses times, and null or true used up to MaxOtherUses times:
     f("azzzzzzzz", "azzzzzzzz", 10, 10, 10, 10, 10, 10, null, null, null) *)

MaxNumberUses == 6

MaxOtherUses == 5

NumberValues == {"7", "10", "100"}

NumberLiteral(value) == [type |-> "number", value |-> value, cat |-> "literal", scope |-> 1]

BooleanLiteral(value) == [type |-> "boolean", value |-> value, cat |-> "literal", scope |-> 1]

OthersCode(strings, number, numberUses, other, otherUses) ==
    [parent  |-> <<0>>,
     binders |-> <<>>,
     idents  |-> <<>>,
     lits    |-> Flatten([k \in 1..strings |-> Repeat(StringLiteral(StringValue(k, 9)), 2)])
                 \o Repeat(number, numberUses)
                 \o Repeat(other, otherUses),
     decls   |-> <<>>]

OthersFamily ==
    {OthersCode(strings, NumberLiteral(value), numberUses, other, otherUses) :
        strings \in 0..1, value \in NumberValues, numberUses \in 0..MaxNumberUses,
        other \in {NullLiteral, BooleanLiteral("true")}, otherUses \in 0..MaxOtherUses}

InitOthers == InitCall(OthersFamily, {[NoOptions EXCEPT !.hoistDuplicateLiterals = TRUE]})

SpecOthers == InitOthers /\ [][NextLiterals]_vars

----------------------------------------------------------------------------
(* Programs for the collection of undefined: a program scope and a function
   scope, with or without a parameter named undefined, and up to
   MaxUndefined identifiers named undefined that are read, assigned to, the
   property of a member expression, an object key or a method name:
     f(undefined, obj.undefined); function g(undefined) { return undefined }
   At most one of them is a property name, so that the property name is no
   string candidate. *)

MaxUndefined == 3

UndefinedCtxs == {"read", "assignLeft", "memberProperty", "objectKey", "methodName"}

UndefinedCode(binders, identifiers) ==
    [parent  |-> <<0, 1>>,
     binders |-> binders,
     idents  |-> identifiers,
     lits    |-> <<>>,
     decls   |-> <<>>]

UndefinedFamily ==
    {UndefinedCode(binders, identifiers) :
        binders \in {<<>>, <<[name |-> "undefined", scope |-> 2]>>},
        identifiers \in
            {ids \in SeqsUpTo({Identifier("undefined", scope, ctx) :
                                  scope \in {1, 2}, ctx \in UndefinedCtxs}, MaxUndefined) :
                Cardinality({i \in DOMAIN ids : IsPropertyNameCtx(ids[i].ctx)}) <= 1}}

InitUndefined ==
    InitCall(UndefinedFamily, {[NoOptions EXCEPT !.hoistDuplicateLiterals = TRUE]})

SpecUndefined == InitUndefined /\ [][NextLiterals]_vars

----------------------------------------------------------------------------
(* Programs for the literals in key positions: up to MaxKeyLiterals
   occurrences of the string "handler" and of the number 1234567, each in an
   expression, as a computed key, or as the non-computed key of an object
   property, of a method or of a class property:
     f("handler", o["handler"]); ({ "handler": 0, "handler"() {} });
     class A { 1234567 = 0 } *)

MaxKeyLiterals == 3

KeyLiteralCats == {"literal", "stringKey", "objectKey"} \cup MemberKeyCats

KeyLiterals ==
    {[type |-> "string", value |-> "handler", cat |-> cat, scope |-> 1] : cat \in KeyLiteralCats}
    \cup {[type |-> "number", value |-> "1234567", cat |-> cat, scope |-> 1] :
              cat \in KeyLiteralCats \ {"stringKey"}}

KeysCode(literals) ==
    [parent  |-> <<0>>,
     binders |-> <<>>,
     idents  |-> <<>>,
     lits    |-> literals,
     decls   |-> <<>>]

KeysFamily == {KeysCode(literals) : literals \in SeqsUpTo(KeyLiterals, MaxKeyLiterals)}

InitKeys == InitCall(KeysFamily, {[NoOptions EXCEPT !.hoistDuplicateLiterals = TRUE]})

SpecKeys == InitKeys /\ [][NextLiterals]_vars

----------------------------------------------------------------------------
(* constsToLets in the pipeline: calls with both hoists on *)

\* Programs of up to MaxDeclarations variable declarations of every kind at
\* every site (the sites other than the top level are inside a function),
\* with one declarator, with three, or with one destructuring declarator,
\* followed by two uses each of URLSearchParams.x and of "abcdefghi", which
\* the hoists declare.
MaxDeclarations == 2

Sites == {"top", "block", "function", "classMethod", "for", "forIn", "forOf"}

\* A pattern lists, per declarator, the number of identifiers it declares.
DeclarationShapes ==
    {[kind |-> kind, site |-> site, pattern |-> <<1>>] : kind \in Kinds, site \in Sites}
    \cup {[kind |-> "const", site |-> "top", pattern |-> <<1, 1, 1>>],
          [kind |-> "const", site |-> "function", pattern |-> <<2>>]}

DeclaredIds(k, pattern) ==
    [j \in 1..Len(pattern) |->
        [m \in 1..pattern[j] |-> "d" \o ToString(k) \o "_" \o ToString(j) \o "_" \o ToString(m)]]

ShapedDeclarations(shapes) ==
    [k \in 1..Len(shapes) |->
        Declaration(shapes[k].kind, IF shapes[k].site = "top" THEN 1 ELSE 2,
                    shapes[k].site, DeclaredIds(k, shapes[k].pattern))]

ConstsCode(shapes) ==
    [parent  |-> <<0, 1>>,
     binders |-> DeclaredBy(ShapedDeclarations(shapes)),
     idents  |-> Repeat(Identifier("URLSearchParams", 1, "memberObject"), 2),
     lits    |-> Repeat([type |-> "string", value |-> "abcdefghi", cat |-> "literal",
                         scope |-> 2], 2),
     decls   |-> ShapedDeclarations(shapes)]

ConstsFamily == {ConstsCode(shapes) : shapes \in SeqsUpTo(DeclarationShapes, MaxDeclarations)}

InitConsts ==
    InitCall(ConstsFamily,
             {[terserOptions |-> FALSE, hoistGlobals |-> TRUE,
               hoistDuplicateLiterals |-> TRUE, constsToLets |-> on] : on \in BOOLEAN})

SpecConsts == InitConsts /\ [][Next]_vars

----------------------------------------------------------------------------
(* Properties of hoistGlobals, checked under SpecGlobals *)

\* C1: typeof-safety.  Once hoistGlobals has run, a name that is the operand
\* of a typeof anywhere in the program is the global of no hoisted binding, is
\* the initializer of no declarator, and every identifier of that name still
\* has it, however many member-object uses the name has.
TypeofSafety ==
    pc = "globals" =>
        \A i \in DOMAIN inputCode.idents :
            isTypeofArgument(inputCode.idents[i]) =>
                /\ \A k \in DOMAIN hoistedGlobals :
                       hoistedGlobals[k].globalName # inputCode.idents[i].name
                /\ \A d \in DOMAIN ast.decls : \A j \in DOMAIN ast.decls[d].declarators :
                       ast.decls[d].declarators[j].init
                           # [type |-> "identifier", value |-> inputCode.idents[i].name]
                /\ \A j \in DOMAIN inputCode.idents :
                       inputCode.idents[j].name = inputCode.idents[i].name
                           => ast.idents[j].name = inputCode.idents[j].name

\* C1's case: hoistGlobals has run on a program in which a name is a typeof
\* operand and also the object of two free member expressions, enough for a
\* positive profit.
TypeofSafetyWitness ==
    /\ pc = "globals"
    /\ options.hoistGlobals
    /\ \E i \in DOMAIN inputCode.idents :
           /\ isTypeofArgument(inputCode.idents[i])
           /\ Cardinality({j \in DOMAIN ast.idents :
                              /\ ast.idents[j].name = inputCode.idents[i].name
                              /\ isMemberExpressionObject(ast.idents[j])
                              /\ ast.idents[j].ref = 0}) >= 2
           /\ calculateGlobalProfit(2, Len(inputCode.idents[i].name), 1, TRUE) > 0

\* C4: hoistGlobals rewrites only free occurrences.  Every identifier that has
\* a placeholder name after the pass resolved to no binding before it, and the
\* occurrence count of a hoisted global is the number of its free
\* member-object occurrences.
OnlyFreeOccurrencesRewritten ==
    pc = "globals" =>
        \A pre \in {parse(inputCode)} :
            /\ \A i \in DOMAIN pre.idents :
                   ast.idents[i].name # pre.idents[i].name => pre.idents[i].ref = 0
            /\ \A k \in DOMAIN hoistedGlobals :
                   hoistedGlobals[k].occurrences =
                       Cardinality({i \in DOMAIN pre.idents :
                           /\ pre.idents[i].name = hoistedGlobals[k].globalName
                           /\ isMemberExpressionObject(pre.idents[i])
                           /\ pre.idents[i].ref = 0})

----------------------------------------------------------------------------
(* The byte saving of a hoisting run, checked under SpecLiterals *)

\* The bytes of an occurrence written inline, as the cost model counts them.
InlineCost(l) ==
    IF l.type # "string" THEN getLiteralRepresentationLength(l.value, l.type)
    ELSE IF l.cat \in PropertyAccessCats THEN 1 + Len(l.value)
    ELSE IF l.cat \in ObjectPropertyCats THEN Len(l.value)
    ELSE JsonLength(l.value)

\* The bytes of an occurrence rewritten to a one-character identifier.
ReferenceCost(l) ==
    IF l.type = "string" /\ l.cat \in PropertyAccessCats \cup ObjectPropertyCats
    THEN 2 + 1 ELSE 1

\* The bytes of an initializer.
InitializerLength(init) ==
    CASE init.type = "identifier" -> Len(init.value)
      [] init.type = "split" -> JsonLength(init.value) + 7 + JsonLength(init.delimiter) + 1
      [] OTHER -> getLiteralRepresentationLength(init.value, init.type)

\* The bytes of a hoisted declaration as emitted, its identifiers one
\* character long: `const a=V,b=W` by getDeclarationCost, the first declarator
\* carrying the keyword, and `let[a,b]="V,W".split(",")` by its text.
DeclarationLength(d) ==
    IF d.declarators[1].init.type = "split"
    THEN 4 + (2 * Len(d.declarators[1].ids) - 1) + 2
         + InitializerLength(d.declarators[1].init)
    ELSE SumSeq([j \in 1..Len(d.declarators) |->
                    getDeclarationCost(InitializerLength(d.declarators[j].init), 1, j = 1)])

\* The saving of the run of hoistGlobals that led from `pre` to `post`.
GlobalsSaving(pre, post) ==
    SumSeq([i \in 1..Len(pre.idents) |->
               IF post.idents[i].name # pre.idents[i].name
               THEN Len(pre.idents[i].name) - 1 ELSE 0])
    - SumSeq([k \in 1..(Len(post.decls) - Len(pre.decls)) |->
                 DeclarationLength(post.decls[k])])

\* The saving of the run of hoistDuplicateLiterals that led from `pre` to
\* `post`: a literal of `pre` is rewritten when `post` has it no more.
LiteralsSaving(pre, post) ==
    SumSeq([i \in 1..Len(pre.lits) |->
               IF pre.lits[i] \notin Range(post.lits)
               THEN InlineCost(pre.lits[i]) - ReferenceCost(pre.lits[i]) ELSE 0])
    + SumSeq([i \in 1..Len(pre.idents) |->
                 IF post.idents[i].name # pre.idents[i].name
                 THEN Len(pre.idents[i].name) - 1 ELSE 0])
    - SumSeq([k \in 1..(Len(post.decls) - Len(pre.decls)) |->
                 DeclarationLength(post.decls[k])])

\* C6: non-expansion guard.  A run of hoistGlobals or of
\* hoistDuplicateLiterals that commits at least one decision saves bytes: the
\* inline cost of the occurrences it rewrites, less the cost of the
\* declarations it emits, less the cost of the rewritten occurrences, is
\* strictly positive.
NonExpansion ==
    /\ (pc = "globals" /\ hoistedGlobals # <<>>)
           => GlobalsSaving(parse(inputCode), ast) > 0
    /\ (pc = "literals" /\ hoistedLiteralBindings # <<>> /\ ~options.hoistGlobals)
           => LiteralsSaving(parse(inputCode), ast) > 0

----------------------------------------------------------------------------
(* Properties of mangleIdentifiers, checked under SpecMangle *)

\* C2: scope-correctness for bound references.  Once mangleIdentifiers has
\* run, no two bindings of one scope have the same name, and for every read
\* or write that resolved to a binding b, the new name of b resolves to b
\* from the place of the reference: no binding of a scope between b's scope
\* and the reference has b's new name.
BoundReferencesKept ==
    pc = "mangled" =>
        \A pre \in {parse(intermediate)} :
            /\ \A b \in DOMAIN ast.bindings : \A c \in DOMAIN ast.bindings :
                   (b # c /\ ast.bindings[b].scope = ast.bindings[c].scope)
                       => ast.bindings[b].name # ast.bindings[c].name
            /\ \A i \in DOMAIN pre.idents :
                   pre.idents[i].ref # 0 =>
                       Resolve(ast.parent, ast.bindings, pre.idents[i].scope,
                               renameMap[pre.idents[i].ref]) = pre.idents[i].ref

\* C2's case: a binding renamed `e` is referenced from a scope two levels
\* down, and the scope in between declares a binding of its own.
BoundReferencesKeptWitness ==
    /\ pc = "mangled"
    /\ \E i \in DOMAIN ast.idents : \E c \in DOMAIN ast.bindings :
           /\ ast.idents[i].ref # 0
           /\ renameMap[ast.idents[i].ref] = "e"
           /\ ast.bindings[c].scope # ast.idents[i].scope
           /\ ast.bindings[c].scope # ast.bindings[ast.idents[i].ref].scope
           /\ isInsideScope(ast.parent, ast.idents[i].scope, ast.bindings[c].scope)
           /\ isInsideScope(ast.parent, ast.bindings[c].scope,
                            ast.bindings[ast.idents[i].ref].scope)

\* C3: scope-correctness for free references.  Once mangleIdentifiers has
\* run, every identifier that resolved to no binding still resolves to none
\* under the new names.
FreeReferencesKept ==
    pc = "mangled" =>
        \A pre \in {parse(intermediate)} :
            \A i \in DOMAIN pre.idents :
                pre.idents[i].ref = 0 =>
                    Resolve(ast.parent, ast.bindings, ast.idents[i].scope,
                            ast.idents[i].name) = 0

----------------------------------------------------------------------------
(* Properties of the pipeline, checked under Spec *)

\* The names a program text holds: of its binders, of its other identifiers
\* and of the identifiers of its declarations.
NamesOf(c) ==
    {c.binders[k].name : k \in DOMAIN c.binders}
    \cup {c.idents[i].name : i \in DOMAIN c.idents}
    \cup UNION {UNION {Range(c.decls[d].declarators[j].ids)
                       \cup (IF c.decls[d].declarators[j].init.type = "identifier"
                             THEN {c.decls[d].declarators[j].init.value} ELSE {}) :
                           j \in DOMAIN c.decls[d].declarators} : d \in DOMAIN c.decls}

IsPlaceholder(name) == StartsWith(name, "__niu_")

\* C5: no placeholder leakage.  For an input without `__niu_` names, every
\* placeholder identifier of the re-parsed program resolves to a binding of
\* the program scope, no name of the program is a placeholder once
\* mangleIdentifiers has run, and none is in the output.
NoPlaceholderLeak ==
    /\ pc = "reparsed" =>
           \A i \in DOMAIN ast.idents :
               IsPlaceholder(ast.idents[i].name) =>
                   /\ ast.idents[i].ref # 0
                   /\ ast.bindings[ast.idents[i].ref].scope = 1
                   /\ ast.bindings[ast.idents[i].ref].name = ast.idents[i].name
    /\ pc \in {"mangled", "lets"} => \A name \in NamesOf(generate(ast)) : ~IsPlaceholder(name)
    /\ pc = "done" => \A name \in NamesOf(output.code) : ~IsPlaceholder(name)

\* C5's case: a call whose two hoists both introduced placeholders has
\* returned.
NoPlaceholderLeakWitness ==
    /\ pc = "done"
    /\ \A name \in NamesOf(code) : ~IsPlaceholder(name)
    /\ hoistedGlobals # <<>>
    /\ hoistedLiteralBindings # <<>>
    /\ \E name \in NamesOf(intermediate) : IsPlaceholder(name)

\* C7: external minifier failure.  When terserOptions is given and the
\* pre-pass throws or returns no code, minify goes on with the original
\* input: the call is not rejected and inputCode is the input.
TerserFailureFallsBack ==
    (pc # "start" /\ options.terserOptions /\ terserResult.kind \in {"throws", "nocode"})
        => (pc # "rejected" /\ inputCode = code)

\* The steps of a call with these options, in order.
ExpectedSteps(o) ==
    (IF o.terserOptions THEN <<"terserMinify">> ELSE <<>>)
    \o <<"parse">>
    \o (IF o.hoistGlobals THEN <<"hoistGlobals">> ELSE <<>>)
    \o (IF o.hoistDuplicateLiterals THEN <<"hoistDuplicateLiterals">> ELSE <<>>)
    \o <<"generate", "parse", "mangleIdentifiers">>
    \o (IF o.constsToLets THEN <<"constsToLets">> ELSE <<>>)
    \o <<"generate">>

\* C8: pipeline order.  The steps a call has run are at every moment the
\* first steps of pre-pass (if any), parse, global hoist (iff enabled),
\* literal hoist (iff enabled), print, re-parse, mangle, const-to-let (iff
\* enabled), final print, and a call that has returned has run them all.
PipelineOrder ==
    /\ Len(steps) <= Len(ExpectedSteps(options))
    /\ steps = SubSeq(ExpectedSteps(options), 1, Len(steps))
    /\ pc = "done" => steps = ExpectedSteps(options)

\* C8's case: a call with every pass switched off has returned, having
\* mangled all the same.
PipelineOrderWitness ==
    /\ pc = "done"
    /\ ~options.hoistGlobals /\ ~options.hoistDuplicateLiterals /\ ~options.constsToLets
    /\ \E k \in DOMAIN steps : steps[k] = "mangleIdentifiers"
    /\ renameMap # <<>>

----------------------------------------------------------------------------
(* Properties of constsToLets, checked under SpecConsts *)

\* C9: constsToLets postcondition.  Once constsToLets has run, no declaration
\* of the program has kind const, at whatever site, the declarations of the
\* hoists included; the same holds of the output.
NoConstLeft ==
    /\ (pc = "lets" /\ options.constsToLets) =>
           \A d \in DOMAIN ast.decls : ast.decls[d].kind # "const"
    /\ (pc = "done" /\ options.constsToLets) =>
           \A d \in DOMAIN output.code.decls : output.code.decls[d].kind # "const"

\* C9's case: constsToLets has run on a program with a const declaration
\* away from the top level and with the const declarations of both hoists.
NoConstLeftWitness ==
    /\ pc = "lets"
    /\ options.constsToLets
    /\ hoistedGlobals # <<>>
    /\ hoistedLiteralBindings # <<>>
    /\ \E d \in DOMAIN intermediate.decls :
           /\ intermediate.decls[d].kind = "const"
           /\ intermediate.decls[d].site \in {"forOf", "classMethod", "block"}

\* C10: constsToLets frame.  The step changes nothing but the kind of the
\* const declarations: the let and var declarations keep their kind, there
\* are as many declarations with the same declarators at the same places, the
\* rest of the program is the same, and the pass applied again changes
\* nothing.
ConstsToLetsFrame ==
    [][(pc = "mangled" /\ options.constsToLets) =>
          /\ [ast' EXCEPT !.decls = <<>>] = [ast EXCEPT !.decls = <<>>]
          /\ Len(ast'.decls) = Len(ast.decls)
          /\ \A d \in DOMAIN ast.decls :
                 /\ [ast'.decls[d] EXCEPT !.kind = ""] = [ast.decls[d] EXCEPT !.kind = ""]
                 /\ ast.decls[d].kind # "const" => ast'.decls[d].kind = ast.decls[d].kind
                 /\ ast.decls[d].kind = "const" => ast'.decls[d].kind = "let"
          /\ constsToLets(ast').ast = ast']_vars

\* C10's case: constsToLets has run on a program with a var declaration and
\* a const declaration of three declarators, now a let of three.
ConstsToLetsFrameWitness ==
    /\ pc = "lets"
    /\ options.constsToLets
    /\ \E d \in DOMAIN ast.decls : ast.decls[d].kind = "var"
    /\ \E d \in DOMAIN ast.decls :
           /\ intermediate.decls[d].kind = "const"
           /\ ast.decls[d].kind = "let"
           /\ Len(ast.decls[d].declarators) = 3

----------------------------------------------------------------------------
(* Properties of the string decisions, checked under SpecStrings *)

\* C11: string break-even.  Strings are hoisted only when some selected
\* candidate has a selective profit (identifier of length 1, not first) above
\* FIRST_DECL_OVERHEAD; when none has, no string is hoisted and every string
\* occurrence stays where it was.  A string of 3 characters used 3 times as a
\* literal stays inline; used 4 times it is hoisted to one declaration of one
\* declarator.
StringBreakEven ==
    (pc = "literals" /\ options.hoistDuplicateLiterals) =>
        \A selected \in {SelectedCandidates(inputCode)} :
            LET hoistedStrings == SelectSeq(hoistedLiteralBindings, IsStringBinding)
                IsString(l) == l.type = "string"
                recoups == \E k \in DOMAIN selected :
                               selected[k].selectiveResult.profit > FIRST_DECL_OVERHEAD
            IN /\ hoistedStrings # <<>> => recoups
               /\ ~recoups => /\ hoistedStrings = <<>>
                              /\ SelectSeq(ast.lits, IsString)
                                     = SelectSeq(inputCode.lits, IsString)
               /\ inputCode.lits = Repeat(StringLiteral("abc"), 3) =>
                      /\ ast.lits = inputCode.lits
                      /\ ast.decls = <<>>
               /\ inputCode.lits = Repeat(StringLiteral("abc"), 4) =>
                      /\ ast.lits = <<>>
                      /\ Len(ast.decls) = 1
                      /\ Len(ast.decls[1].declarators) = 1
                      /\ ast.decls[1].declarators[1].init
                             = [type |-> "string", value |-> "abc"]

\* C11's case: the candidate with the most occurrences is profitable but does
\* not recoup the overhead, a later one does, and both are hoisted.
StringBreakEvenWitness ==
    /\ pc = "literals"
    /\ options.hoistDuplicateLiterals
    /\ \E selected \in {SelectedCandidates(inputCode)} :
           /\ Len(selected) = 2
           /\ selected[1].selectiveResult.profit > 0
           /\ selected[1].selectiveResult.profit <= FIRST_DECL_OVERHEAD
           /\ selected[2].selectiveResult.profit > FIRST_DECL_OVERHEAD
    /\ Len(SelectSeq(hoistedLiteralBindings, IsStringBinding)) = 2

\* C12: per-occurrence gates.  For a hoisted string s, its dot-access uses are
\* rewritten only if Len(s) > 2 and its identifier-key and class-member-key
\* uses only if Len(s) > 3; the uses of a category whose gate fails are left
\* as written, in place, and the literal, bracket-access and
\* computed-string-key uses of s are all rewritten to the placeholder of s.
PerOccurrenceGates ==
    (pc = "literals" /\ options.hoistDuplicateLiterals) =>
        LET hoistedStrings == SelectSeq(hoistedLiteralBindings, IsStringBinding)
            IsHoisted(value) ==
                \E k \in DOMAIN hoistedStrings : hoistedStrings[k].value.value = value
            Uses(lits, value, cats) ==
                {i \in DOMAIN lits : /\ lits[i].type = "string"
                                     /\ lits[i].value = value
                                     /\ lits[i].cat \in cats}
            IsString(l) == l.type = "string"
            Left(l) ==
                \/ ~IsHoisted(l.value)
                \/ l.cat \in PropertyAccessCats /\ ~(Len(l.value) > 2)
                \/ l.cat \in ObjectPropertyCats /\ ~(Len(l.value) > 3)
        IN /\ SelectSeq(ast.lits, IsString)
                  = SelectSeq(SelectSeq(inputCode.lits, IsString), Left)
           /\ \A k \in DOMAIN hoistedStrings :
                  LET s == hoistedStrings[k].value.value
                      X == hoistedStrings[k].name
                  IN /\ Uses(ast.lits, s, LiteralCats) = {}
                     /\ Cardinality(Uses(ast.lits, s, PropertyAccessCats))
                            < Cardinality(Uses(inputCode.lits, s, PropertyAccessCats))
                        => Len(s) > 2
                     /\ Cardinality(Uses(ast.lits, s, ObjectPropertyCats))
                            < Cardinality(Uses(inputCode.lits, s, ObjectPropertyCats))
                        => Len(s) > 3
                     /\ Cardinality({i \in DOMAIN ast.idents : ast.idents[i].name = X})
                            = Cardinality({i \in DOMAIN inputCode.lits :
                                              /\ inputCode.lits[i].type = "string"
                                              /\ inputCode.lits[i].value = s
                                              /\ ~Left(inputCode.lits[i])})

\* C12's case: a hoisted string of 3 characters used as a literal, as a dot
\* access and as a key: the dot accesses are rewritten, the keys are left.
PerOccurrenceGatesWitness ==
    /\ pc = "literals"
    /\ options.hoistDuplicateLiterals
    /\ \E k \in DOMAIN hoistedLiteralBindings :
           /\ hoistedLiteralBindings[k].value = [type |-> "string", value |-> "abc"]
           /\ \E i \in DOMAIN inputCode.lits :
                  inputCode.lits[i] = StringUse("abc", "bracketAccess")
           /\ \E i \in DOMAIN inputCode.lits :
                  inputCode.lits[i] = StringUse("abc", "dotAccess")
           /\ \E i \in DOMAIN ast.lits : ast.lits[i] = StringUse("abc", "classMethod")
           /\ \A i \in DOMAIN ast.lits :
                  ast.lits[i].type = "string" => ast.lits[i].cat \in ObjectPropertyCats

\* C13: split-packing trigger and fallback.  The hoisted strings are emitted
\* as one let statement with one array pattern initialised by a split call
\* exactly when there are at least 7 of them and some printable ASCII
\* character that needs no escaping is in none of them; otherwise as one const
\* statement with a declarator per string.  The hoisted non-string literals
\* are always in a const statement of their own, after that of the strings.
SplitTrigger ==
    (pc = "literals" /\ options.hoistDuplicateLiterals) =>
        LET hoistedStrings == SelectSeq(hoistedLiteralBindings, IsStringBinding)
            hoistedOthers == SelectSeq(hoistedLiteralBindings, IsOtherBinding)
            delimiters ==
                {c \in CharsOf(PrintableAscii) :
                    /\ c \notin {"\"", "'", "\\"}
                    /\ \A k \in DOMAIN hoistedStrings :
                           c \notin CharsOf(hoistedStrings[k].value.value)}
            packed == Len(hoistedStrings) >= 7 /\ delimiters # {}
            first == IF hoistedStrings = <<>> THEN 0 ELSE 1
            Declarators(bs) ==
                [k \in DOMAIN bs |-> [ids |-> <<bs[k].name>>, init |-> bs[k].value]]
        IN /\ Len(ast.decls) = first + (IF hoistedOthers = <<>> THEN 0 ELSE 1)
           /\ hoistedStrings # <<>> =>
                  IF packed
                  THEN /\ ast.decls[1].kind = "let"
                       /\ Len(ast.decls[1].declarators) = 1
                       /\ ast.decls[1].declarators[1].ids
                              = [k \in DOMAIN hoistedStrings |-> hoistedStrings[k].name]
                       /\ ast.decls[1].declarators[1].init.type = "split"
                  ELSE /\ ast.decls[1].kind = "const"
                       /\ ast.decls[1].declarators = Declarators(hoistedStrings)
           /\ hoistedOthers # <<>> =>
                  /\ ast.decls[first + 1].kind = "const"
                  /\ ast.decls[first + 1].declarators = Declarators(hoistedOthers)

\* C13's case: 7 or more strings are hoisted, one of them holds every
\* candidate delimiter, and null is hoisted too: two const statements.
SplitTriggerWitness ==
    /\ pc = "literals"
    /\ options.hoistDuplicateLiterals
    /\ Len(SelectSeq(hoistedLiteralBindings, IsStringBinding)) >= 7
    /\ \E k \in DOMAIN hoistedLiteralBindings :
           hoistedLiteralBindings[k].value = [type |-> "string", value |-> NoDelimiterValue]
    /\ \E k \in DOMAIN hoistedLiteralBindings : hoistedLiteralBindings[k].value.type = "null"
    /\ Len(ast.decls) = 2
    /\ ast.decls[1].kind = "const"

\* C14: split-packing round trip.  Whenever the strings are split-packed, the
\* delimiter is one printable ASCII character that needs no escaping and is
\* in none of the hoisted strings, and the split of the packed literal on it
\* is the sequence of the hoisted strings, the i-th element of the pattern
\* being the name of the i-th string.
SplitRoundTrip ==
    (pc = "literals" /\ options.hoistDuplicateLiterals) =>
        \A d \in DOMAIN ast.decls : \A j \in DOMAIN ast.decls[d].declarators :
            LET declarator == ast.decls[d].declarators[j]
                hoistedStrings == SelectSeq(hoistedLiteralBindings, IsStringBinding)
            IN declarator.init.type = "split" =>
                   /\ Len(declarator.init.delimiter) = 1
                   /\ declarator.init.delimiter \in CharsOf(PrintableAscii)
                   /\ declarator.init.delimiter \notin {"\"", "'", "\\"}
                   /\ \A k \in DOMAIN hoistedStrings :
                          declarator.init.delimiter
                              \notin CharsOf(hoistedStrings[k].value.value)
                   /\ Split(declarator.init.value, declarator.init.delimiter)
                          = [k \in DOMAIN hoistedStrings |-> hoistedStrings[k].value.value]
                   /\ declarator.ids
                          = [k \in DOMAIN hoistedStrings |-> hoistedStrings[k].name]

\* C14's case: the strings are split-packed and one of them holds the first
\* preferred delimiter, so another one is chosen.
SplitRoundTripWitness ==
    /\ pc = "literals"
    /\ options.hoistDuplicateLiterals
    /\ \E k \in DOMAIN hoistedLiteralBindings :
           hoistedLiteralBindings[k].value = [type |-> "string", value |-> "a,b"]
    /\ ast.decls # <<>>
    /\ ast.decls[1].declarators[1].init.type = "split"
    /\ ast.decls[1].declarators[1].init.delimiter = ";"

----------------------------------------------------------------------------
(* Properties of the name generator, checked under SpecNames *)

NoReservedWordNames ==
    pc = "mangled" =>
        /\ \A b \in DOMAIN renameMap : renameMap[b] \notin RESERVED_WORDS
        /\ \A b \in DOMAIN ast.bindings : ast.bindings[b].name \notin RESERVED_WORDS
        /\ \A pre \in {parse(intermediate)} :
               \A s \in DOMAIN pre.parent :
                   Cardinality({renameMap[b] : b \in {c \in DOMAIN pre.bindings :
                                                        pre.bindings[c].scope = s}})
                       = Cardinality({c \in DOMAIN pre.bindings : pre.bindings[c].scope = s})

\* C16's case: a scope of so many bindings that the generator came to in, if
\* and do; the names before and after do are assigned.
NoReservedWordNamesWitness ==
    /\ pc = "mangled"
    /\ Len(ast.parent) = 1
    /\ \A word \in {"in", "if", "do"} :
           /\ \E b \in DOMAIN renameMap : renameMap[b] = indexToName(IndexOf(word) - 1)
           /\ \E b \in DOMAIN renameMap : renameMap[b] = indexToName(IndexOf(word) + 1)

\* C17 as stated: the alphabet has 55 start characters and indices 0 to 54
\* give names of one character.  In a scope whose bindings are never
\* referenced the k-th declared binding has the name of index k - 1, so each
\* of the first 55 would have a name of one character.
ShortNameAlphabetOf55 ==
    pc = "mangled" =>
        \A pre \in {parse(intermediate)} :
            pre.idents = <<>> =>
                \A b \in DOMAIN pre.bindings :
                    LET k == Cardinality({c \in 1..b : pre.bindings[c].scope = pre.bindings[b].scope})
                    IN k <= 55 => Len(renameMap[b]) = 1

\* C17, amended: the alphabet has 54 start characters, the lowercase letters
\* in the order etaonirshldcumfpgwybvkxjqz, the same letters uppercase, then
\* $ and _, and indices 0 to 53 give the names of one character in that
\* order; the k-th declared binding of a scope whose bindings are never
\* referenced has the k-th character as its name, for k up to 54.
ShortNameAlphabet ==
    LET lower == "etaonirshldcumfpgwybvkxjqz"
        upper == "ETAONIRSHLDCUMFPGWYBVKXJQZ"
        alphabet == lower \o upper \o "$_"
    IN pc = "mangled" =>
           \A pre \in {parse(intermediate)} :
               pre.idents = <<>> =>
                   \A b \in DOMAIN pre.bindings :
                       LET k == Cardinality({c \in 1..b :
                                   pre.bindings[c].scope = pre.bindings[b].scope})
                       IN /\ Len(lower) = 26 /\ Len(upper) = 26 /\ Len(alphabet) = 54
                          /\ k <= 54 => renameMap[b] = SubSeq(alphabet, k, k)
                          /\ k > 54 => Len(renameMap[b]) > 1

\* C17's case: a scope of more than 54 bindings, none referenced: the 54th
\* is named _ and the 55th ee.
ShortNameAlphabetWitness ==
    /\ pc = "mangled"
    /\ ast.idents = <<>>
    /\ Len(ast.parent) = 1
    /\ Len(renameMap) > 54
    /\ renameMap[54] = "_"
    /\ renameMap[55] = "ee"

\* C18 as stated: indexToName maps different indices to different names,
\* every name it produces is a valid JS identifier, and it is onto the valid
\* JS identifiers, the shorter before the longer.  For the indices a scope's
\* generator went through: the names differ, none is a reserved word and
\* each has the form of an identifier; and each identifier made of the first
\* character of an assigned name and a digit is the name of an index below
\* that of the first name of three characters.
IndexToNameOntoIdentifiers ==
    pc = "mangled" =>
        LET indices == 0..(Len(renameMap) - 1)
            names == {indexToName(i) : i \in indices}
        IN /\ Cardinality(names) = Cardinality(indices)
           /\ \A name \in names : isValidIdentifier(name) /\ name \notin RESERVED_WORDS
           /\ \A id \in {SubSeq(renameMap[b], 1, 1) \o "0" : b \in DOMAIN renameMap} :
                  /\ isValidIdentifier(id)
                  /\ \E i \in 0..(IndexOf("eee") - 1) : indexToName(i) = id

\* C18, amended: indexToName maps different indices to different names, every
\* name it produces has the form of a JS identifier (reserved words are among
\* them), and it is onto the non-empty strings over the alphabet: each is the
\* name of exactly one index, the shorter before the longer.  For the indices
\* a scope's generator went through, for every string of one or two
\* characters of the alphabet, and for the assigned names lengthened by one
\* character: the string is the name of its index, the index of a name is
\* the index it came from, and the names of one character come first, 54 of
\* them, then those of two, 54 times 54 of them.
IndexToNameBijection ==
    pc = "mangled" =>
        LET base == Len(CHARS)
            indices == 0..(Len(renameMap) + Cardinality(RESERVED_WORDS))
            chars == {CharAt(i) : i \in 0..(base - 1)}
            short == chars \cup {c \o d : c \in chars, d \in chars}
            longer == {renameMap[b] \o c : b \in DOMAIN renameMap, c \in {"e", "_"}}
            lengthAt(i) == IF i < base THEN 1 ELSE IF i < base + base * base THEN 2 ELSE 3
        IN /\ \A i \in indices :
                  /\ IndexOf(indexToName(i)) = i
                  /\ isValidIdentifier(indexToName(i))
                  /\ Len(indexToName(i)) = lengthAt(i)
           /\ \A name \in short \cup longer :
                  /\ indexToName(IndexOf(name)) = name
                  /\ Len(name) <= 3 => lengthAt(IndexOf(name)) = Len(name)
           /\ Cardinality(short) = base + base * base
           /\ \A b \in DOMAIN renameMap : IndexOf(renameMap[b]) \in indices

\* C18's case: a scope of so many bindings that names of two characters past
\* do are assigned, each the name of its index; the index of in gives in.
IndexToNameBijectionWitness ==
    /\ pc = "mangled"
    /\ \E b \in DOMAIN renameMap :
           /\ Len(renameMap[b]) = 2
           /\ IndexOf(renameMap[b]) > IndexOf("do")
           /\ indexToName(IndexOf(renameMap[b])) = renameMap[b]
    /\ indexToName(IndexOf("in")) = "in"
    /\ \A b \in DOMAIN renameMap : renameMap[b] # "in"

----------------------------------------------------------------------------
(* Properties of the renames, checked under SpecFrame *)

\* C19: the mangler's frame.  mangleIdentifiers changes the name of an
\* identifier node only when the node is a read or a write of a local
\* binding; a free identifier, the property name of a member access, an
\* object key and a method name have the name they had.
ManglerFrame ==
    pc = "mangled" =>
        \A pre \in {parse(intermediate)} :
            \A i \in DOMAIN pre.idents :
                ast.idents[i].name # pre.idents[i].name =>
                    /\ pre.idents[i].ref # 0
                    /\ pre.idents[i].ctx \in {"read", "memberObject", "typeofArg", "assignLeft"}

----------------------------------------------------------------------------
(* The decision of hoistGlobals, checked under SpecGlobals *)

\* C20: the global hoist decision.  hoistGlobals hoists the name g exactly
\* when g is in the globals map of the program scope, g is the operand of no
\* typeof, g is n >= 2 times the object of a member expression, the reserved
\* contextual names left out, and n * G - D - n * 1 is positive, G the length
\* of g and D the cost of its declarator with a one-character name: 6 + 1 +
\* 1 + G as long as no global is admitted, 1 + 1 + 1 + G after that, the
\* names taken in the order of their first use.  One declaration with a
\* declarator per hoisted name is put first; when the globals map is empty
\* or no name is admitted the AST is the parsed one and no declaration is
\* put first.
GlobalHoistDecision ==
    (pc = "globals" /\ options.hoistGlobals) =>
        \A pre \in {parse(inputCode)} :
            LET trueGlobals == {pre.idents[i].name : i \in {j \in DOMAIN pre.idents :
                                   pre.idents[j].ref = 0}}
                typeofGuarded == {pre.idents[i].name : i \in {j \in DOMAIN pre.idents :
                                     pre.idents[j].ctx = "typeofArg"}}
                reservedNames == {"arguments", "this", "super", "undefined", "NaN",
                                  "Infinity", "null", "true", "false"}
                uses(g) == {i \in DOMAIN pre.idents :
                               pre.idents[i].name = g /\ pre.idents[i].ctx = "memberObject"}
                n(g) == IF g \in reservedNames THEN 0 ELSE Cardinality(uses(g))
                first(g) == CHOOSE i \in uses(g) : \A j \in uses(g) : i <= j
                hoisted == {hoistedGlobals[k].globalName : k \in DOMAIN hoistedGlobals}
                candidates == {g \in trueGlobals \ typeofGuarded : n(g) >= 2}
                admittedBefore(g) == \E h \in hoisted \cap candidates : first(h) < first(g)
                D(g) == (IF admittedBefore(g) THEN 1 ELSE 6) + 1 + 1 + Len(g)
                profit(g) == n(g) * Len(g) - D(g) - n(g) * 1
            IN /\ \A g \in {pre.idents[i].name : i \in DOMAIN pre.idents} :
                      g \in hoisted <=> (g \in candidates /\ profit(g) > 0)
               /\ hoisted \subseteq {pre.idents[i].name : i \in DOMAIN pre.idents}
               /\ Cardinality(hoisted) = Len(hoistedGlobals)
               /\ IF hoisted = {}
                  THEN ast = pre
                  ELSE /\ Len(ast.decls) = Len(pre.decls) + 1
                       /\ ast.decls[1].kind = "const"
                       /\ {d.init.value : d \in {ast.decls[1].declarators[k] :
                              k \in DOMAIN ast.decls[1].declarators}} = hoisted
                       /\ \A k \in DOMAIN pre.decls : ast.decls[k + 1] = pre.decls[k]

\* C20's case: hoistGlobals has admitted two globals, one of them with two
\* uses and a name so short that as the first it would have been left.
GlobalHoistDecisionWitness ==
    /\ pc = "globals"
    /\ options.hoistGlobals
    /\ Len(hoistedGlobals) = 2
    /\ \E k \in DOMAIN hoistedGlobals :
           /\ hoistedGlobals[k].occurrences = 2
           /\ calculateGlobalProfit(2, Len(hoistedGlobals[k].globalName), 1, TRUE) <= 0

----------------------------------------------------------------------------
(* The size of the output, checked under Spec *)

\* The bytes of a program as printed compactly, up to the text the passes
\* leave alone: the identifiers, the literal and property-name occurrences,
\* the declaring identifiers that no declaration declares, and the
\* declarations with keyword, patterns, initializers and separators.
CodeSize(c) ==
    LET initLength(init) ==
            CASE init.type = "expression" -> 0
              [] init.type = "identifier" -> Len(init.value)
              [] init.type = "split" ->
                     JsonLength(init.value) + 7 + JsonLength(init.delimiter) + 1
              [] OTHER -> getLiteralRepresentationLength(init.value, init.type)
        literalLength(l) ==
            IF l.type # "string" THEN getLiteralRepresentationLength(l.value, l.type)
            ELSE IF l.cat \in PropertyAccessCats THEN 1 + Len(l.value)
            ELSE IF l.cat \in ObjectPropertyCats THEN Len(l.value)
            ELSE JsonLength(l.value)
        patternLength(ids, init) ==
            SumSeq([i \in 1..Len(ids) |-> Len(ids[i])]) + (Len(ids) - 1)
            + (IF Len(ids) > 1 \/ init.type = "split" THEN 2 ELSE 0)
        declaratorLength(d) == patternLength(d.ids, d.init) + 1 + initLength(d.init)
        declarationLength(d) ==
            Len(d.kind) + 1
            + SumSeq([j \in 1..Len(d.declarators) |-> declaratorLength(d.declarators[j])])
            + (Len(d.declarators) - 1) + 1
        declared == Range(DeclaredBy(c.decls))
    IN SumSeq([i \in 1..Len(c.idents) |-> Len(c.idents[i].name)])
       + SumSeq([i \in 1..Len(c.lits) |-> literalLength(c.lits[i])])
       + SumSeq([k \in 1..Len(c.binders) |->
                    IF c.binders[k] \in declared THEN 0 ELSE Len(c.binders[k].name)])
       + SumSeq([k \in 1..Len(c.decls) |-> declarationLength(c.decls[k])])

----------------------------------------------------------------------------
(* The profit of a string, checked under SpecStrings *)

MaxIdentifierLength == 3

\* C22: the selective string profit.  For the counts L, P and K of a string
\* of the program as a literal, as a dot access and as an identifier key, an
\* identifier length id and either first flag, calculateSelectiveStringProfit
\* counts P as 0 when the string is no longer than 1 + id and K as 0 when it
\* is no longer than 2 + id; with fewer than 2 occurrences left the profit
\* is -Infinity and the three flags are false; otherwise the profit is
\* L * R + P' * (1 + len) + K' * len - D - L * id - (P' + K') * (2 + id), R
\* the quoted length and D the cost of the declaration, and a flag is true
\* exactly when its count is not 0.  A hoisted string has L + P' + K'
\* occurrences, id being 1.
SelectiveStringProfit ==
    \A value \in {code.lits[i].value : i \in {j \in DOMAIN code.lits :
                     code.lits[j].type = "string"}} :
        LET count(cats) == Cardinality({i \in DOMAIN code.lits :
                               /\ code.lits[i].type = "string"
                               /\ code.lits[i].value = value
                               /\ code.lits[i].cat \in cats})
            L == count({"literal", "bracketAccess", "stringKey"})
            P == count({"dotAccess"})
            K == count({"identifierKey", "classMethod", "classProperty"})
            len == Len(value)
            R == JsonLength(value)
            effectiveP(id) == IF len <= 1 + id THEN 0 ELSE P
            effectiveK(id) == IF len <= 2 + id THEN 0 ELSE K
            D(id, first) == (IF first THEN 6 ELSE 1) + id + 1 + R
        IN /\ \A id \in 1..MaxIdentifierLength : \A first \in BOOLEAN :
                  \A result \in {calculateSelectiveStringProfit(
                                     [literalCount |-> L, propertyAccessCount |-> P,
                                      objectPropertyCount |-> K], value, id, first)} :
                      IF L + effectiveP(id) + effectiveK(id) < 2
                      THEN result = [profit |-> NegInfinity, hoistLiterals |-> FALSE,
                                     hoistPropertyAccess |-> FALSE,
                                     hoistObjectProperties |-> FALSE]
                      ELSE /\ result.profit =
                                  L * R + effectiveP(id) * (1 + len) + effectiveK(id) * len
                                  - D(id, first) - L * id
                                  - (effectiveP(id) + effectiveK(id)) * (2 + id)
                           /\ result.hoistLiterals <=> L > 0
                           /\ result.hoistPropertyAccess <=> effectiveP(id) > 0
                           /\ result.hoistObjectProperties <=> effectiveK(id) > 0
           /\ (pc = "literals" /\ options.hoistDuplicateLiterals) =>
                  \A k \in DOMAIN hoistedLiteralBindings :
                      hoistedLiteralBindings[k].value = [type |-> "string", value |-> value]
                          => hoistedLiteralBindings[k].occurrences
                                 = L + effectiveP(1) + effectiveK(1)

\* C22's case: hoistDuplicateLiterals has hoisted a string of 3 characters
\* that is a literal, a dot access and a key: its occurrences are the
\* literals and the dot accesses, the keys are counted as 0.
SelectiveStringProfitWitness ==
    /\ pc = "literals"
    /\ options.hoistDuplicateLiterals
    /\ \E k \in DOMAIN hoistedLiteralBindings :
           LET uses(cats) == Cardinality({i \in DOMAIN code.lits :
                                 code.lits[i].value = "abc" /\ code.lits[i].cat \in cats})
           IN /\ hoistedLiteralBindings[k].value = [type |-> "string", value |-> "abc"]
              /\ uses(LiteralCats) > 0
              /\ uses(PropertyAccessCats) > 0
              /\ uses(ObjectPropertyCats) > 0
              /\ hoistedLiteralBindings[k].occurrences
                     = uses(LiteralCats) + uses(PropertyAccessCats)

----------------------------------------------------------------------------
(* The reserved names of a scope, checked under SpecMangle *)

\* C23: the reserved set of a scope.  A name is reserved in scope S exactly
\* when a binding of a proper ancestor of S has that new name and is read or
\* written in S or in a scope inside S.  The names of the bindings of S are
\* none of them reserved, and the generator passed over a name only if it is
\* reserved or a reserved word: every name of an index up to the largest one
\* used in S is the name of a binding of S, reserved in S, or a reserved
\* word.  So a scope that uses no binding of an ancestor has the names from
\* index 0 on, those of its ancestors again.
ReservedSetOfScope ==
    pc = "mangled" =>
        \A pre \in {parse(intermediate)} :
            \A S \in DOMAIN pre.parent :
                LET own == {b \in DOMAIN pre.bindings : pre.bindings[b].scope = S}
                    ownNames == {renameMap[b] : b \in own}
                    properAncestors == {A \in DOMAIN pre.parent :
                                           A # S /\ isInsideScope(pre.parent, S, A)}
                    usedInside(b) ==
                        \E i \in DOMAIN pre.idents :
                            /\ pre.idents[i].ref = b
                            /\ pre.idents[i].ctx \in {"read", "memberObject", "typeofArg",
                                                      "assignLeft"}
                            /\ isInsideScope(pre.parent, pre.idents[i].scope, S)
                    reserved == {renameMap[b] : b \in {c \in DOMAIN pre.bindings :
                                    pre.bindings[c].scope \in properAncestors /\ usedInside(c)}}
                    last == CHOOSE i \in {IndexOf(n) : n \in ownNames} :
                                \A n \in ownNames : IndexOf(n) <= i
                IN own # {} =>
                       /\ ownNames \cap reserved = {}
                       /\ \A i \in 0..last :
                              \/ indexToName(i) \in ownNames
                              \/ indexToName(i) \in reserved
                              \/ indexToName(i) \in RESERVED_WORDS
                       /\ reserved = {} => indexToName(0) \in ownNames

\* C23's case: three scopes one inside the other; the binding of the program
\* scope, named e, is written in the innermost scope and nowhere else, so
\* the binding of the middle scope is named t; another state has the
\* binding of a nested scope named e like that of the program scope.
ReservedSetOfScopeWitness ==
    /\ pc = "mangled"
    /\ ast.parent = <<0, 1, 2>>
    /\ Len(ast.bindings) = 2
    /\ ast.bindings[1] = [name |-> "e", scope |-> 1]
    /\ ast.bindings[2] = [name |-> "t", scope |-> 2]
    /\ Len(ast.idents) = 1
    /\ ast.idents[1].scope = 3
    /\ ast.idents[1].ctx = "assignLeft"
    /\ ast.idents[1].ref = 1

----------------------------------------------------------------------------
(* The application of the renames, checked under SpecWrites *)

\* C24: complete application of a rename.  After mangleIdentifiers every
\* binding in the rename map has its new name on its declaring identifier,
\* and every identifier that reads it or is the target of a write of it (a
\* plain assignment, an update expression, a destructuring assignment, the
\* head of a for-in or for-of statement, a redeclaration) has that new name.
CompleteRename ==
    pc = "mangled" =>
        \A pre \in {parse(intermediate)} :
            /\ \A b \in DOMAIN renameMap : ast.bindings[b].name = renameMap[b]
            /\ \A i \in DOMAIN pre.idents :
                   (/\ pre.idents[i].ref \in DOMAIN renameMap
                    /\ pre.idents[i].ctx \in WriteCtxs \cup {"read"})
                       => ast.idents[i].name = renameMap[pre.idents[i].ref]

----------------------------------------------------------------------------
(* The selection of the string candidates, checked under SpecSelection *)

\* The selected candidates of hoistDuplicateLiterals are those the rule of
\* C25 selects, in the order of decreasing effective occurrence count; ties
\* are in first-encounter order, and when profitableFirst the profitable
\* candidates of a tie come before the marginal ones.
SelectionIs(profitableFirst) ==
    (pc = "literals" /\ options.hoistDuplicateLiterals) =>
        \A pre \in {parse(inputCode)} :
            LET strings == {i \in DOMAIN code.lits : code.lits[i].type = "string"}
                firsts == {i \in strings :
                              \A j \in strings : code.lits[j].value = code.lits[i].value => i <= j}
                uses(i) == Cardinality({j \in strings : code.lits[j].value = code.lits[i].value})
                result(i) ==
                    calculateSelectiveStringProfit(
                        [literalCount |-> uses(i), propertyAccessCount |-> 0,
                         objectPropertyCount |-> 0], code.lits[i].value, 1, FALSE)
                candidates == {i \in firsts : uses(i) >= 2 /\ result(i).profit > -2}
                profitable == {i \in candidates : result(i).profit > 0}
                marginal == {i \in candidates : result(i).profit <= 0}
                p == Cardinality(profitable)
                m == Cardinality(marginal)
                selected == IF p >= 7 THEN profitable
                            ELSE IF p + m >= 7 THEN profitable \cup marginal
                            ELSE profitable
                Before(i, j) ==
                    \/ uses(i) > uses(j)
                    \/ /\ uses(i) = uses(j)
                       /\ IF profitableFirst /\ ((i \in marginal) # (j \in marginal))
                          THEN j \in marginal
                          ELSE i < j
                place(i) == 1 + Cardinality({j \in selected : Before(j, i)})
                chosen == SelectedCandidates(pre)
            IN /\ Len(chosen) = Cardinality(selected)
               /\ \A i \in selected :
                      /\ chosen[place(i)].value = code.lits[i].value
                      /\ chosen[place(i)].effectiveOccurrences = uses(i)
               /\ \A k \in DOMAIN hoistedLiteralBindings :
                      hoistedLiteralBindings[k].value.type = "string" =>
                          \E i \in selected :
                              hoistedLiteralBindings[k].value.value = code.lits[i].value

\* C25 as stated: string candidate selection.  A string is a candidate iff
\* its effective occurrence count is >= 2 and its selective profit (id = 1,
\* first = false) is > -2; with p candidates of profit > 0 and m of profit in
\* (-2, 0] the profitable ones alone are selected when p >= 7, the profitable
\* and the marginal ones when p < 7 and p + m >= 7, the profitable ones alone
\* otherwise; the selected candidates are ordered by effective occurrence
\* count descending, ties kept in first-encounter order.
SelectionInEncounterOrder == SelectionIs(FALSE)

\* C25: string candidate selection.  As above, with the ties of the order
\* kept as the selection lists them: the profitable candidates in
\* first-encounter order, then the marginal ones in first-encounter order.
StringCandidateSelection == SelectionIs(TRUE)

\* C25's case: fewer than 7 profitable candidates and a marginal one that
\* makes them 7, met first in the program and used as often as the
\* profitable ones: it is selected after them, and hoisted.
StringCandidateSelectionWitness ==
    /\ pc = "literals"
    /\ Len(code.lits) = 14
    /\ code.lits[1].value = "ab"
    /\ \A pre \in {parse(inputCode)} :
           LET chosen == SelectedCandidates(pre)
           IN /\ Len(chosen) = 7
              /\ chosen[7].value = "ab"
              /\ chosen[7].selectiveResult.profit = -1
              /\ chosen[1].effectiveOccurrences = 2
    /\ \E k \in DOMAIN hoistedLiteralBindings :
           hoistedLiteralBindings[k].value = [type |-> "string", value |-> "ab"]

----------------------------------------------------------------------------
(* The first-declaration gate, checked under SpecStrings *)

\* C26: first-declaration gate deferral.  Of the selected candidates in
\* their order, those before the first one with profit - 5 > 0 are skipped
\* for the first slot; once there is a first one every later candidate is
\* committed, and a skipped one is committed after that iff its own profit
\* is > 0 (a skipped marginal candidate is dropped; without a first one no
\* string is committed).  The committed strings are ordered by effective
\* occurrence count descending; the i-th binding has the placeholder
\* __niu_literal_i__ (i from 0), the strings before the other literals, and
\* the placeholders differ from one another.
FirstGateDeferral ==
    (pc = "literals" /\ options.hoistDuplicateLiterals) =>
        \A selected \in {SelectedCandidates(parse(inputCode))} :
            LET passes == {k \in DOMAIN selected :
                              selected[k].selectiveResult.profit - 5 > 0}
                committed ==
                    IF passes = {} THEN {}
                    ELSE {k \in DOMAIN selected :
                             \/ \E f \in passes : f <= k
                             \/ selected[k].selectiveResult.profit > 0}
                bindings == hoistedLiteralBindings
                strings == {k \in DOMAIN bindings : bindings[k].value.type = "string"}
            IN /\ strings = 1..Cardinality(committed)
               /\ \A k \in committed : \E j \in strings :
                      /\ bindings[j].value.value = selected[k].value
                      /\ bindings[j].occurrences = selected[k].effectiveOccurrences
               /\ \A j \in strings : \A k \in strings :
                      j < k => bindings[j].occurrences >= bindings[k].occurrences
               /\ \A k \in DOMAIN bindings :
                      bindings[k].name = "__niu_literal_" \o ToString(k - 1) \o "__"
               /\ \A j \in DOMAIN bindings : \A k \in DOMAIN bindings :
                      j # k => bindings[j].name # bindings[k].name

\* C26's case: the candidate used most is profitable but does not pay for
\* the first declaration; it is skipped, a later candidate is the first, and
\* the skipped one is committed and is again the first of the bindings, with
\* null hoisted after the strings.
FirstGateDeferralWitness ==
    /\ pc = "literals"
    /\ \A selected \in {SelectedCandidates(parse(inputCode))} :
           /\ Len(selected) >= 2
           /\ selected[1].selectiveResult.profit \in 1..5
           /\ selected[1].effectiveOccurrences > selected[2].effectiveOccurrences
           /\ Len(hoistedLiteralBindings) = Len(selected) + 1
           /\ hoistedLiteralBindings[1].value = [type |-> "string", value |-> selected[1].value]
           /\ hoistedLiteralBindings[1].name = "__niu_literal_0__"
           /\ hoistedLiteralBindings[Len(selected) + 1].value.type = "null"

----------------------------------------------------------------------------
(* The decisions on the literals that are no strings, checked under
   SpecOthers *)

\* The literals of the program that are no strings, as [type, value].
OtherValues == {[type |-> code.lits[i].type, value |-> code.lits[i].value] :
                   i \in {j \in DOMAIN code.lits : code.lits[j].type # "string"}}

\* The number of uses of a literal that is no string.
OtherUses(v) ==
    Cardinality({i \in DOMAIN code.lits :
                    code.lits[i].type = v.type /\ code.lits[i].value = v.value})

\* The length of the representation of a literal that is no string.
OtherLength(v) ==
    IF v.type = "number" THEN Len(v.value)
    ELSE IF v.type = "null" THEN 4
    ELSE IF v.value = "true" THEN 4 ELSE 5

\* n * R - D(R, 1, F) - n * 1
OtherProfit(n, R, F) == n * R - ((IF F THEN 6 ELSE 1) + 1 + 1 + R) - n * 1

\* For a number of representation length R <= 2 used n >= 2 times the profit
\* n * R - D(R, 1, F) - n * 1 is not positive, for either value of F.
ShortNumberProfitNeverPositive ==
    (pc = "literals" /\ options.hoistDuplicateLiterals) =>
        \A v \in OtherValues :
            (v.type = "number" /\ OtherLength(v) <= 2 /\ OtherUses(v) >= 2) =>
                \A F \in BOOLEAN :
                    /\ calculateLiteralProfit(OtherUses(v), OtherLength(v), 1, F) <= 0
                    /\ OtherProfit(OtherUses(v), OtherLength(v), F) <= 0

\* A literal that is no string and no number of length <= 2 is hoisted iff
\* it is used at least twice and its profit is > 0, F being true when no
\* string and no literal met before it is hoisted; a number of length <= 2
\* is not hoisted.
OtherLiteralsAdmission ==
    (pc = "literals" /\ options.hoistDuplicateLiterals) =>
        LET hoisted == {hoistedLiteralBindings[k].value : k \in DOMAIN hoistedLiteralBindings}
            firstUse(v) == CHOOSE i \in DOMAIN code.lits :
                               /\ code.lits[i].type = v.type /\ code.lits[i].value = v.value
                               /\ \A j \in 1..(i - 1) : code.lits[j] # code.lits[i]
            F(v) == \A w \in hoisted :
                        /\ w.type # "string"
                        /\ firstUse(w) >= firstUse(v)
        IN \A v \in OtherValues :
               IF v.type = "number" /\ OtherLength(v) <= 2
               THEN v \notin hoisted
               ELSE v \in hoisted <=>
                        /\ OtherUses(v) >= 2
                        /\ OtherProfit(OtherUses(v), OtherLength(v), F(v)) > 0

\* C27: short numbers cannot profit.  For a number literal of representation
\* length R <= 2 and any n >= 2 uses the profit n * R - D(R, 1, F) - n * 1 is
\* never positive, for either value of the first flag, so that leaving such
\* numbers out gives up no saving; every other literal that is no string is
\* hoisted iff it is used at least twice and that profit is > 0.
ShortNumbersCannotProfit == ShortNumberProfitNeverPositive /\ OtherLiteralsAdmission

\* C30: the first flag matches the emission for the literals that are no
\* strings.  The flag passed to calculateLiteralProfit when such a literal is
\* admitted is true exactly when its binding is the first declarator of the
\* const declaration it is emitted in; with strings hoisted too, the first
\* binding that is no string opens a const declaration of its own and is
\* charged as a first declaration.
FirstFlagMatchesEmission ==
    (pc = "literals" /\ options.hoistDuplicateLiterals) =>
        \A pre \in {parse(inputCode)} :
            \A decisions \in {HoistDecisions(pre, Len(StringDecisions(pre)))} :
                \A k \in DOMAIN decisions :
                    LET d == decisions[k]
                        charged(F) == calculateLiteralProfit(d.occurrences,
                                          OtherLength(d), 1, F)
                        first == d.profit = charged(TRUE)
                        names == {hoistedLiteralBindings[j].name :
                                     j \in {i \in DOMAIN hoistedLiteralBindings :
                                         hoistedLiteralBindings[i].value
                                             = [type |-> d.type, value |-> d.value]}}
                        opens == \E j \in DOMAIN ast.decls :
                                     /\ ast.decls[j].kind = "const"
                                     /\ ast.decls[j].declarators[1].ids \in {<<n>> : n \in names}
                    IN /\ names # {}
                       /\ d.profit \in {charged(TRUE), charged(FALSE)}
                       /\ first <=> opens

----------------------------------------------------------------------------
(* The collection of undefined, checked under SpecUndefined *)

\* C28: undefined is collected only in read positions.  Every Identifier
\* named undefined that hoistDuplicateLiterals counts and rewrites to a
\* placeholder is an expression that reads the global undefined; an
\* assignment target, a non-computed object key, a method name, the
\* non-computed property of a member expression and a reference to a local
\* binding named undefined are neither counted nor rewritten.
UndefinedOnlyInReadPositions ==
    (pc = "literals" /\ options.hoistDuplicateLiterals) =>
        \A pre \in {parse(inputCode)} :
            LET reads == {i \in DOMAIN pre.idents :
                             /\ pre.idents[i].name = "undefined"
                             /\ pre.idents[i].ctx \in {"read", "memberObject", "typeofArg"}
                             /\ pre.idents[i].ref = 0}
            IN /\ \A i \in DOMAIN pre.idents :
                      ast.idents[i].name # pre.idents[i].name => i \in reads
               /\ \A k \in DOMAIN hoistedLiteralBindings :
                      hoistedLiteralBindings[k].value.type = "undefined" =>
                          hoistedLiteralBindings[k].occurrences = Cardinality(reads)

----------------------------------------------------------------------------
(* The literals in key positions, checked under SpecKeys *)

\* C29: literals in key positions.  Every literal occurrence that
\* hoistDuplicateLiterals replaces with a placeholder is in an expression
\* position or inside computed brackets; a literal that is the non-computed
\* key of an object property, an object method, a class method or a class
\* property stays, and no placeholder is a non-computed key.
KeyLiteralsKept ==
    (pc = "literals" /\ options.hoistDuplicateLiterals) =>
        LET keys(lits, cat, v) ==
                Cardinality({i \in DOMAIN lits : lits[i].cat = cat /\ lits[i].value = v})
        IN /\ \A cat \in {"objectKey", "methodKey", "classPropertyKey"} :
                  \A v \in {"handler", "1234567"} :
                      keys(ast.lits, cat, v) = keys(code.lits, cat, v)
           /\ \A i \in DOMAIN ast.idents :
                  (\E k \in DOMAIN hoistedLiteralBindings :
                       hoistedLiteralBindings[k].name = ast.idents[i].name)
                      => ast.idents[i].ctx \in {"read", "memberObject", "typeofArg"}

====
